---- MODULE Spec2Model ----
(***************************************************************************)
(* Calendar application: the multi-day event lane layout of the calendar   *)
(* grid, the quick-add natural-language parser and the bulk text parser.   *)
(*                                                                         *)
(* Dates (JS Date objects at local midnight) are day numbers counted from  *)
(* 1970-01-01; text is a sequence of one-character strings.                *)
(***************************************************************************)
EXTENDS Integers, Sequences, FiniteSets, TLC

VARIABLES
    events,        \* the store's event list (calendarStore.events)
    weekDays,      \* the week last rendered by renderMonth (<<>> before)
    laneEvents,    \* weekSpanningEvents handed to assignEventLanes
    laneResult,    \* what assignEventLanes returned for that week
    today,         \* the system clock: the local date new Date() gives
    quickAddInput, \* Sidebar: the text of the quick-add field
    parsed,        \* Sidebar: the last parseNaturalLanguage call and its result
    text,          \* BulkPasteImporter: the pasted text
    clip,          \* BulkPasteImporter: the clip-to-operating-year box
    preview,       \* BulkPasteImporter: what parseBulkText returned
    isLoading,     \* the store's isLoading flag
    db,            \* the events object store of IndexedDB (storage.ts)
    calls          \* the store operations that were called and have not returned

laneVars == <<events, weekDays, laneEvents, laneResult>>
nlVars   == <<quickAddInput, parsed>>
bulkVars == <<text, clip, preview>>
storeVars == <<isLoading, db, calls>>
vars == <<events, weekDays, laneEvents, laneResult, today,
          quickAddInput, parsed, text, clip, preview, isLoading, db, calls>>

NoDate == -1       \* an absent endDate (undefined)

---------------------------------------------------------------------------
(* Calendar arithmetic of the JS Date object and of date-fns               *)

\* the element of a one-element set; The({ e : x \in {v} }) is e with x
\* standing for the value v
The(S) == CHOOSE x \in S : TRUE

\* days since 1970-01-01 of the civil date y-m-d (proleptic Gregorian)
DaysFromCivil(y, m, d) ==
    The({ The({ The({ era * 146097 + (yoe * 365 + yoe \div 4 - yoe \div 100 + doy) - 719468 :
                      yoe \in { yy - era * 400 } }) :
                era \in { yy \div 400 } }) :
          yy  \in { IF m <= 2 THEN y - 1 ELSE y },
          doy \in { (153 * (IF m > 2 THEN m - 3 ELSE m + 9) + 2) \div 5 + d - 1 } })

\* the civil date of a day number, as format(day, 'yyyy-MM-dd') prints it
CivilFromDays(n) ==
    The({ The({ The({ The({ The({
        <<yoe + era * 400 + (IF mp < 10 THEN 0 ELSE 1),
          IF mp < 10 THEN mp + 3 ELSE mp - 9,
          doy - (153 * mp + 2) \div 5 + 1>> :
        mp  \in { (5 * doy + 2) \div 153 } }) :
        doy \in { doe - (365 * yoe + yoe \div 4 - yoe \div 100) } }) :
        yoe \in { (doe - doe \div 1460 + doe \div 36524 - doe \div 146096) \div 365 } }) :
        doe \in { (n + 719468) - era * 146097 } }) :
        era \in { (n + 719468) \div 146097 } })

\* Date.prototype.getDay: 0 = Sunday .. 6 = Saturday
getDay(n) == (n + 4) % 7

---------------------------------------------------------------------------
(* JS strings and regular expressions.  A string is a sequence of          *)
(* one-character strings; "ndash" stands for an en or em dash.             *)

Uppers == <<"A", "B", "C", "D", "E", "F", "G", "H", "I", "J", "K", "L", "M",
            "N", "O", "P", "Q", "R", "S", "T", "U", "V", "W", "X", "Y", "Z">>
Lowers == <<"a", "b", "c", "d", "e", "f", "g", "h", "i", "j", "k", "l", "m",
            "n", "o", "p", "q", "r", "s", "t", "u", "v", "w", "x", "y", "z">>
Digits == <<"0", "1", "2", "3", "4", "5", "6", "7", "8", "9">>

UpperSet == { Uppers[k] : k \in 1..26 }
LowerSet == { Lowers[k] : k \in 1..26 }
DigitSet == { Digits[k] : k \in 1..10 }
Letters  == UpperSet \cup LowerSet
WordSet  == Letters \cup DigitSet \cup {"_"}
SpaceSet == {" ", "\t", "\n", "\r"}

LowerOf == [c \in UpperSet |-> Lowers[CHOOSE k \in 1..26 : Uppers[k] = c]]
DigitValue == [c \in DigitSet |-> (CHOOSE k \in 1..10 : Digits[k] = c) - 1]

toLowerChar(c) == IF c \in UpperSet THEN LowerOf[c] ELSE c

\* String.prototype.toLowerCase
toLowerCase(s) == [i \in 1..Len(s) |-> toLowerChar(s[i])]

\* String.prototype.trim
trim(s) ==
    The({ IF keep = {} THEN <<>>
          ELSE SubSeq(s, CHOOSE i \in keep : \A j \in keep : i <= j,
                         CHOOSE i \in keep : \A j \in keep : i >= j) :
          keep \in { { i \in 1..Len(s) : s[i] \notin SpaceSet } } })

\* does w occur in s at one-based position i
occursAt(s, w, i) ==
    /\ i + Len(w) - 1 <= Len(s)
    /\ \A k \in 1..Len(w) : s[i + k - 1] = w[k]

\* String.prototype.indexOf, one-based; 0 when absent
indexOf(s, w) ==
    IF \E i \in 1..(Len(s) + 1) : occursAt(s, w, i)
    THEN CHOOSE i \in 1..(Len(s) + 1) :
            /\ occursAt(s, w, i)
            /\ \A j \in 1..(i - 1) : ~occursAt(s, w, j)
    ELSE 0

\* String.prototype.includes
includes(s, w) == \E i \in 1..(Len(s) + 1) : occursAt(s, w, i)

\* parseInt of a string of digits
RECURSIVE parseInt(_)
parseInt(s) ==
    IF s = <<>> THEN 0
    ELSE 10 * parseInt(SubSeq(s, 1, Len(s) - 1)) + DigitValue[s[Len(s)]]

\* Number.prototype.toString of a non-negative integer
RECURSIVE numToString(_)
numToString(n) ==
    IF n < 10 THEN <<Digits[n + 1]>>
    ELSE numToString(n \div 10) \o <<Digits[(n % 10) + 1]>>

\* String.prototype.padStart(width, '0')
RECURSIVE padStart(_, _)
padStart(s, width) ==
    IF Len(s) >= width THEN s ELSE padStart(<<"0">> \o s, width)

\* A regular expression is a tree of tuples:
\*   <<"set", S>>            one character of the set S
\*   <<"not", S>>            one character outside S
\*   <<"str", w>>            the literal w
\*   <<"seq", <<r1, ..>>>>   concatenation
\*   <<"alt", <<r1, ..>>>>   alternatives, tried left to right
\*   <<"run", c, lo, hi>>    greedy repetition lo..hi times of the
\*                           character class c (a "set" or "not" node)
\*   <<"opt", r>>            r?, greedy
\*   <<"grp", g, r>>         capture group number g
\*   <<"wb">>                \b
\*   <<"eos">>               $
\* A way to match is the record [pos, caps, rank]: the position behind the
\* match, the groups (caps[g] = <<from, to>>, to exclusive, <<0, 0>> when
\* group g is unset) and the choices made at the alternatives and the
\* repetitions, each numbered in the order in which the backtracking search
\* of the JS engine tries them.  The engine reports the way of least rank.
Unbounded == 99

R_set(S)        == <<"set", S>>
R_not(S)        == <<"not", S>>
R_str(w)        == <<"str", w>>
R_seq(rs)       == <<"seq", rs>>
R_alt(rs)       == <<"alt", rs>>
R_rep(c, lo, hi) == <<"run", c, lo, hi>>
R_grp(g, r)     == <<"grp", g, r>>
R_opt(r)        == <<"opt", r>>
R_star(c)       == <<"run", c, 0, Unbounded>>
R_plus(c)       == <<"run", c, 1, Unbounded>>
R_wb            == <<"wb">>
R_eos           == <<"eos">>
R_words(ws)     == <<"alt", [k \in 1..Len(ws) |-> <<"str", ws[k]>>]>>

charIn(c, S, ci) == c \in S \/ (ci /\ toLowerChar(c) \in S)

\* does the character class node c accept the character ch
classHas(c, ch, ci) ==
    IF c[1] = "set" THEN charIn(ch, c[2], ci) ELSE ~charIn(ch, c[2], ci)

strAt(s, w, i, ci) ==
    /\ i + Len(w) - 1 <= Len(s)
    /\ \A k \in 1..Len(w) :
          \/ s[i + k - 1] = w[k]
          \/ (ci /\ toLowerChar(s[i + k - 1]) = w[k])

isWordAt(s, i) == i >= 1 /\ i <= Len(s) /\ s[i] \in WordSet

\* the length of the longest run of class characters from position i
runLength(c, s, i, ci) ==
    (CHOOSE j \in i..(Len(s) + 1) :
        /\ j = Len(s) + 1 \/ ~classHas(c, s[j], ci)
        /\ \A k \in i..(j - 1) : classHas(c, s[k], ci)) - i

RECURSIVE threads(_, _, _, _)
RECURSIVE step(_, _, _, _)

\* the ways to match the node r from the way t on
step(r, t, s, ci) ==
    CASE r[1] \in {"set", "not"} ->
            IF t.pos <= Len(s) /\ classHas(r, s[t.pos], ci)
            THEN {[t EXCEPT !.pos = @ + 1]} ELSE {}
      [] r[1] = "str" ->
            IF strAt(s, r[2], t.pos, ci)
            THEN {[t EXCEPT !.pos = @ + Len(r[2])]} ELSE {}
      [] r[1] = "seq" -> threads(r[2], {t}, s, ci)
      [] r[1] = "alt" ->
            UNION { threads(<<r[2][k]>>, {[t EXCEPT !.rank = Append(@, k)]}, s, ci) :
                    k \in 1..Len(r[2]) }
      [] r[1] = "run" ->
            \* greedy: the longer run is tried first
            { [t EXCEPT !.pos = @ + m, !.rank = Append(@, Len(s) - m)] :
              m \in { n \in r[3]..runLength(r[2], s, t.pos, ci) : n <= r[4] } }
      [] r[1] = "opt" ->
            threads(<<r[2]>>, {[t EXCEPT !.rank = Append(@, 1)]}, s, ci)
            \cup {[t EXCEPT !.rank = Append(@, 2)]}
      [] r[1] = "grp" ->
            { [o EXCEPT !.caps[r[2]] = <<t.pos, o.pos>>] :
              o \in threads(<<r[3]>>, {t}, s, ci) }
      [] r[1] = "wb" ->
            IF isWordAt(s, t.pos - 1) # isWordAt(s, t.pos) THEN {t} ELSE {}
      [] r[1] = "eos" ->
            IF t.pos = Len(s) + 1 THEN {t} ELSE {}

\* the ways to match the nodes of K one after the other from the ways ts on
threads(K, ts, s, ci) ==
    IF K = <<>> \/ ts = {} THEN ts
    ELSE threads(Tail(K), UNION { step(Head(K), t, s, ci) : t \in ts }, s, ci)

\* is the rank a tried before the rank b
before(a, b) ==
    \E i \in 1..Len(a) : /\ i <= Len(b)
                         /\ a[i] < b[i]
                         /\ \A j \in 1..(i - 1) : a[j] = b[j]

NoCaps(ng) == [g \in 1..ng |-> <<0, 0>>]

\* leftmost match of r in s from position from on: of the ways to match
\* from the least position that has one, the way that is tried first
searchFrom(r, ng, s, ci, from) ==
    The({ IF hits = {}
          THEN [found |-> FALSE, index |-> 0, end |-> 0, caps |-> NoCaps(ng)]
          ELSE The({ [found |-> TRUE, index |-> o[1], end |-> o[2].pos, caps |-> o[2].caps] :
                     o \in { h \in hits : \A q \in hits :
                                \/ h[1] < q[1]
                                \/ h[1] = q[1] /\ (h = q \/ before(h[2].rank, q[2].rank)) } }) :
          hits \in { UNION { { <<i, t>> : t \in threads(<<r>>, {[pos |-> i, caps |-> NoCaps(ng), rank |-> <<>>]}, s, ci) } :
                             i \in from..(Len(s) + 1) } } })

\* String.prototype.match / RegExp.prototype.exec without the g flag
match(r, ng, s, ci) == searchFrom(r, ng, s, ci, 1)

\* RegExp.prototype.test
test(r, ng, s, ci) == match(r, ng, s, ci).found

\* match[g]: the text of group g (0 = the whole match), <<>> when undefined
group(m, s, g) ==
    IF g = 0 THEN SubSeq(s, m.index, m.end - 1)
    ELSE SubSeq(s, m.caps[g][1], m.caps[g][2] - 1)

\* String.prototype.replace(r, w) without the g flag: the first match only
replaceFirst(r, ng, s, ci, w) ==
    The({ IF m.found
          THEN SubSeq(s, 1, m.index - 1) \o w \o SubSeq(s, m.end, Len(s))
          ELSE s :
          m \in { match(r, ng, s, ci) } })

\* String.prototype.replace(r, w) with the g flag: every match, left to right
RECURSIVE replaceAllFrom(_, _, _, _, _, _)
replaceAllFrom(r, ng, s, ci, w, from) ==
    The({ IF ~m.found THEN SubSeq(s, from, Len(s))
          ELSE SubSeq(s, from, m.index - 1) \o w
               \o (IF m.end > m.index
                   THEN replaceAllFrom(r, ng, s, ci, w, m.end)
                   ELSE IF m.index <= Len(s)
                        THEN <<s[m.index]>> \o replaceAllFrom(r, ng, s, ci, w, m.index + 1)
                        ELSE <<>>) :
          m \in { searchFrom(r, ng, s, ci, from) } })

replaceAll(r, ng, s, ci, w) == replaceAllFrom(r, ng, s, ci, w, 1)

\* pieces of regular expressions that the parsers share
R_d12   == R_rep(R_set(DigitSet), 1, 2)                  \* \d{1,2}
R_d2    == R_rep(R_set(DigitSet), 2, 2)                  \* \d{2}
R_d4    == R_rep(R_set(DigitSet), 4, 4)                  \* \d{4}
R_ws0   == R_star(R_set(SpaceSet))                       \* \s*
R_ws1   == R_plus(R_set(SpaceSet))                       \* \s+
R_dash  == R_seq(<<R_ws0, R_str(<<"-">>), R_ws0>>)       \* \s*-\s*
R_alpha == R_plus(R_set(Letters))                        \* [a-zA-Z]+

MonthAbbr == << <<"j", "a", "n">>, <<"f", "e", "b">>, <<"m", "a", "r">>,
                <<"a", "p", "r">>, <<"m", "a", "y">>, <<"j", "u", "n">>,
                <<"j", "u", "l">>, <<"a", "u", "g">>, <<"s", "e", "p">>,
                <<"o", "c", "t">>, <<"n", "o", "v">>, <<"d", "e", "c">> >>

MonthWide == << <<"j", "a", "n", "u", "a", "r", "y">>,
                <<"f", "e", "b", "r", "u", "a", "r", "y">>,
                <<"m", "a", "r", "c", "h">>,
                <<"a", "p", "r", "i", "l">>,
                <<"m", "a", "y">>,
                <<"j", "u", "n", "e">>,
                <<"j", "u", "l", "y">>,
                <<"a", "u", "g", "u", "s", "t">>,
                <<"s", "e", "p", "t", "e", "m", "b", "e", "r">>,
                <<"o", "c", "t", "o", "b", "e", "r">>,
                <<"n", "o", "v", "e", "m", "b", "e", "r">>,
                <<"d", "e", "c", "e", "m", "b", "e", "r">> >>

\* (jan|feb|mar|apr|may|jun|jul|aug|sep|oct|nov|dec)
R_mon == R_words(MonthAbbr)

---------------------------------------------------------------------------
(* Bounds of the lane model                                                *)

MaxEvents == 3     \* events in the store
MaxWeeks  == 2     \* weeks of the month that are rendered

\* the month on display: October 2025
MonthYear  == 2025
MonthIndex == 10

\* dates an event of the store may start on: Fri 3, Sat 4, Mon 6, Tue 7,
\* Wed 8 Oct
EventDates == { DaysFromCivil(2025, 10, d) : d \in {3, 4, 6, 7, 8} }
\* end dates: none, Tue 7, Thu 9, Sat 11 Oct
EventEndDates == {NoDate} \cup { DaysFromCivil(2025, 10, d) : d \in {7, 9, 11} }

---------------------------------------------------------------------------
(* Calendar grid: src/unnamed/part_002                                     *)

\* startOfWeek / endOfWeek of date-fns with the default Sunday week start
startOfWeek(n) == n - getDay(n)
endOfWeek(n)   == n + (6 - getDay(n))

DaysInMonth(y, m) ==
    IF m = 12 THEN 31
    ELSE DaysFromCivil(y, m + 1, 1) - DaysFromCivil(y, m, 1)

\* monthData.days: every day from the Sunday on or before the 1st to the
\* Saturday on or after the last day of the month
monthDays ==
    LET monthStart == DaysFromCivil(MonthYear, MonthIndex, 1)
        monthEnd   == DaysFromCivil(MonthYear, MonthIndex,
                                    DaysInMonth(MonthYear, MonthIndex))
        first      == startOfWeek(monthStart)
        last       == endOfWeek(monthEnd)
    IN  [i \in 1..(last - first + 1) |-> first + i - 1]

\* (variant: every event with an endDate counts as multi-day)
isMultiDayEventAnyEnd(e) == e.endDate # NoDate

isMultiDayEvent(e) == e.endDate # NoDate /\ e.endDate # e.date

getMultiDayEventsForMonth(evs, days) ==
    SelectSeq(evs, LAMBDA e :
        /\ isMultiDayEvent(e)
        /\ e.endDate >= days[1]
        /\ e.date <= days[Len(days)])

RECURSIVE groupLoop(_, _, _)
groupLoop(workDays, weeks, currentWeek) ==
    IF workDays = <<>>
    THEN IF Len(currentWeek) > 0 THEN Append(weeks, currentWeek) ELSE weeks
    ELSE LET day == Head(workDays) IN
         IF getDay(day) = 1 /\ Len(currentWeek) > 0
         THEN groupLoop(Tail(workDays), Append(weeks, currentWeek), <<day>>)
         ELSE groupLoop(Tail(workDays), weeks, Append(currentWeek, day))

groupDaysIntoWeeks(days) ==
    groupLoop(SelectSeq(days, LAMBDA d : getDay(d) >= 1 /\ getDay(d) <= 5),
              <<>>, <<>>)

\* Array.prototype.findIndex over the week, comparing formatted dates;
\* zero-based, -1 when no day of the week prints like d
RECURSIVE findIndexFrom(_, _, _)
findIndexFrom(week, d, i) ==
    IF i > Len(week) THEN -1
    ELSE IF CivilFromDays(week[i]) = CivilFromDays(d) THEN i - 1
    ELSE findIndexFrom(week, d, i + 1)

findIndex(week, d) == findIndexFrom(week, d, 1)

\* (variant: an index that findIndex does not find is kept as it is)
toIntervalAsFound(e, week) ==
    [id |-> e.id, start |-> findIndex(week, e.date), end |-> findIndex(week, e.endDate)]

\* the interval of one event in the week (before the start <= end filter)
toInterval(e, week) ==
    LET startIdx == findIndex(week, e.date)
        endIdx   == findIndex(week, e.endDate)
    IN  [id    |-> e.id,
         start |-> IF startIdx >= 0 THEN startIdx ELSE 0,
         end   |-> IF endIdx >= 0 THEN endIdx ELSE Len(week) - 1]

\* (variant: the start <= end filter is left out)
intervalsOfUnfiltered(evs, week) ==
    [i \in 1..Len(evs) |-> toInterval(evs[i], week)]

intervalsOf(evs, week) ==
    SelectSeq([i \in 1..Len(evs) |-> toInterval(evs[i], week)],
              LAMBDA iv : iv.start <= iv.end)

\* (variant: intervals are ordered by their start index only)
compareIntervalsByStart(a, b) == a.start - b.start

\* the comparator of intervals.sort: negative when a goes before b
compareIntervals(a, b) ==
    IF a.start # b.start THEN a.start - b.start
    ELSE (b.end - b.start) - (a.end - a.start)

\* Array.prototype.sort is stable: an element is inserted behind every
\* element that does not compare greater than it
RECURSIVE insertSorted(_, _)
insertSorted(sorted, x) ==
    IF sorted = <<>> THEN <<x>>
    ELSE IF compareIntervals(Head(sorted), x) <= 0
         THEN <<Head(sorted)>> \o insertSorted(Tail(sorted), x)
         ELSE <<x>> \o sorted

RECURSIVE sortIntervals(_)
sortIntervals(s) ==
    IF s = <<>> THEN <<>>
    ELSE insertSorted(sortIntervals(SubSeq(s, 1, Len(s) - 1)), s[Len(s)])

\* (variant: the second comparison admits a shared boundary day)
fitsBesideTouching(interval, existing) ==
    interval.end < existing.start \/ interval.start >= existing.end

\* the overlap test of the inner loop: interval fits beside existing
fitsBeside(interval, existing) ==
    interval.end < existing.start \/ interval.start > existing.end

canFit(interval, lane) ==
    \A k \in 1..Len(lane) : fitsBeside(interval, lane[k])

\* (variant: the scan stops one lane short of lanes.length)
RECURSIVE firstFitShort(_, _, _)
firstFitShort(interval, lanes, laneIndex) ==
    IF laneIndex > Len(lanes) - 1 THEN 0
    ELSE IF canFit(interval, lanes[laneIndex]) THEN laneIndex
    ELSE firstFitShort(interval, lanes, laneIndex + 1)

\* the first lane (one-based) the interval fits in, 0 when none does
RECURSIVE firstFit(_, _, _)
firstFit(interval, lanes, laneIndex) ==
    IF laneIndex > Len(lanes) THEN 0
    ELSE IF canFit(interval, lanes[laneIndex]) THEN laneIndex
    ELSE firstFit(interval, lanes, laneIndex + 1)

\* the greedy loop; eventLanes is the Map as a sequence of <<id, lane>>
\* entries in insertion order, lanes are zero-based as in the source
RECURSIVE greedyLoop(_, _, _)
greedyLoop(intervals, lanes, eventLanes) ==
    IF intervals = <<>>
    THEN [eventLanes |-> eventLanes, maxLanes |-> Len(lanes), lanes |-> lanes]
    ELSE LET interval == Head(intervals)
             fit      == firstFit(interval, lanes, 1)
             assigned == IF fit = 0 THEN Len(lanes) ELSE fit - 1
             lanes2   == IF fit = 0
                         THEN Append(lanes, <<interval>>)
                         ELSE [lanes EXCEPT ![fit] = Append(@, interval)]
         IN  greedyLoop(Tail(intervals), lanes2,
                        Append(eventLanes, <<interval.id, assigned>>))

assignEventLanes(evs, week) ==
    IF Len(evs) = 0
    THEN [eventLanes |-> <<>>, maxLanes |-> 0, lanes |-> <<>>]
    ELSE greedyLoop(sortIntervals(intervalsOf(evs, week)), <<>>, <<>>)

\* renderMonth: the weeks of the month on display
monthWeeks == groupDaysIntoWeeks(monthDays)

\* (variant: every multi-day event of the month is handed over)
weekSpanningEventsOfMonth(evs, week) ==
    getMultiDayEventsForMonth(evs, monthDays)

\* renderMonth: the events that are handed to assignEventLanes for a week
weekSpanningEvents(evs, week) ==
    SelectSeq(getMultiDayEventsForMonth(evs, monthDays), LAMBDA e :
        e.endDate >= week[1] /\ e.date <= week[Len(week)])

---------------------------------------------------------------------------
(* Quick add: parseNaturalLanguage, src/client/src/lib/dateParser.ts       *)

\* formatDateSafe: local year, month and day, zero padded
formatDateSafe(n) ==
    The({ numToString(c[1]) \o <<"-">> \o padStart(numToString(c[2]), 2)
          \o <<"-">> \o padStart(numToString(c[3]), 2) :
          c \in { CivilFromDays(n) } })

getFullYear(n) == CivilFromDays(n)[1]

\* monthMap: zero-based month of a three-letter key, -1 for undefined
monthMap(key) ==
    IF \E k \in 1..12 : MonthAbbr[k] = key
    THEN (CHOOSE k \in 1..12 : MonthAbbr[k] = key) - 1
    ELSE -1

\* (variant: the holiday keywords are scanned before the meeting keywords)
nlTypeHolidaysFirst(cleanInput) ==
    IF \/ includes(cleanInput, <<"p", "l", "a", "n", "n", "i", "n", "g">>)
       \/ includes(cleanInput, <<"p", "i", " ", "p", "l", "a", "n", "n", "i", "n", "g">>)
       \/ includes(cleanInput, <<"q", "b", "r", " ", "p", "l", "a", "n", "n", "i", "n", "g">>)
    THEN "PLANNING"
    ELSE IF \/ includes(cleanInput, <<"m", "o", "n", "t", "h", "l", "y", " ", "r", "e", "v", "i", "e", "w">>)
            \/ includes(cleanInput, <<"m", "o", "n", "t", "h", " ", "r", "e", "v", "i", "e", "w">>)
            \/ includes(cleanInput, <<"m", "o", "n", "t", "h", "l", "y">>)
    THEN "MONTHLY_REVIEW"
    ELSE IF \/ includes(cleanInput, <<"h", "o", "l", "i", "d", "a", "y">>)
            \/ includes(cleanInput, <<"v", "a", "c", "a", "t", "i", "o", "n">>)
            \/ includes(cleanInput, <<"t", "h", "a", "n", "k", "s", "g", "i", "v", "i", "n", "g">>)
            \/ includes(cleanInput, <<"v", "e", "t", "e", "r", "a", "n", "s">>)
            \/ includes(cleanInput, <<"c", "h", "r", "i", "s", "t", "m", "a", "s">>)
    THEN "HOLIDAYS"
    ELSE IF \/ includes(cleanInput, <<"m", "e", "e", "t", "i", "n", "g">>)
            \/ includes(cleanInput, <<"s", "t", "a", "n", "d", "u", "p">>)
            \/ includes(cleanInput, <<"r", "e", "v", "i", "e", "w">>)
            \/ includes(cleanInput, <<"r", "e", "t", "r", "o", "s", "p", "e", "c", "t", "i", "v", "e">>)
            \/ includes(cleanInput, <<"q", "b", "r">>)
    THEN "MEETING"
    ELSE "NONE"

\* the keyword scan that sets type; "NONE" is undefined
nlType(cleanInput) ==
    IF \/ includes(cleanInput, <<"p", "l", "a", "n", "n", "i", "n", "g">>)
       \/ includes(cleanInput, <<"p", "i", " ", "p", "l", "a", "n", "n", "i", "n", "g">>)
       \/ includes(cleanInput, <<"q", "b", "r", " ", "p", "l", "a", "n", "n", "i", "n", "g">>)
    THEN "PLANNING"
    ELSE IF \/ includes(cleanInput, <<"m", "o", "n", "t", "h", "l", "y", " ", "r", "e", "v", "i", "e", "w">>)
            \/ includes(cleanInput, <<"m", "o", "n", "t", "h", " ", "r", "e", "v", "i", "e", "w">>)
            \/ includes(cleanInput, <<"m", "o", "n", "t", "h", "l", "y">>)
    THEN "MONTHLY_REVIEW"
    ELSE IF \/ includes(cleanInput, <<"m", "e", "e", "t", "i", "n", "g">>)
            \/ includes(cleanInput, <<"s", "t", "a", "n", "d", "u", "p">>)
            \/ includes(cleanInput, <<"r", "e", "v", "i", "e", "w">>)
            \/ includes(cleanInput, <<"r", "e", "t", "r", "o", "s", "p", "e", "c", "t", "i", "v", "e">>)
            \/ includes(cleanInput, <<"q", "b", "r">>)
    THEN "MEETING"
    ELSE IF \/ includes(cleanInput, <<"h", "o", "l", "i", "d", "a", "y">>)
            \/ includes(cleanInput, <<"v", "a", "c", "a", "t", "i", "o", "n">>)
            \/ includes(cleanInput, <<"t", "h", "a", "n", "k", "s", "g", "i", "v", "i", "n", "g">>)
            \/ includes(cleanInput, <<"v", "e", "t", "e", "r", "a", "n", "s">>)
            \/ includes(cleanInput, <<"c", "h", "r", "i", "s", "t", "m", "a", "s">>)
    THEN "HOLIDAYS"
    ELSE "NONE"

R_slash == R_str(<<"/">>)
R_colon == R_str(<<":">>)
R_ampm  == R_alt(<<R_str(<<"a", "m">>), R_str(<<"p", "m">>)>>)

\* dateRangePatterns, each with its number of groups
dateRangePatterns == <<
    \* /(\d{1,2})\s*-\s*(\d{1,2})\s+(jan|...|dec)/i
    [re |-> R_seq(<<R_grp(1, R_d12), R_dash, R_grp(2, R_d12), R_ws1,
                    R_grp(3, R_mon)>>), ng |-> 3, ci |-> TRUE],
    \* /(\d{1,2})\/(\d{1,2})\s*-\s*(\d{1,2})\/(\d{1,2})/
    [re |-> R_seq(<<R_grp(1, R_d12), R_slash, R_grp(2, R_d12), R_dash,
                    R_grp(3, R_d12), R_slash, R_grp(4, R_d12)>>),
     ng |-> 4, ci |-> FALSE],
    \* /(jan|...|dec)\s+(\d{1,2})\s*-\s*(\d{1,2})/i
    [re |-> R_seq(<<R_grp(1, R_mon), R_ws1, R_grp(2, R_d12), R_dash,
                    R_grp(3, R_d12)>>), ng |-> 3, ci |-> TRUE] >>

\* datePatterns
datePatterns == <<
    \* /(\d{1,2})\s+(jan|...|dec)/i
    [re |-> R_seq(<<R_grp(1, R_d12), R_ws1, R_grp(2, R_mon)>>),
     ng |-> 2, ci |-> TRUE],
    \* /(\d{1,2})\/(\d{1,2})\/(\d{4})/
    [re |-> R_seq(<<R_grp(1, R_d12), R_slash, R_grp(2, R_d12), R_slash,
                    R_grp(3, R_d4)>>), ng |-> 3, ci |-> FALSE],
    \* /(\d{1,2})\/(\d{1,2})/
    [re |-> R_seq(<<R_grp(1, R_d12), R_slash, R_grp(2, R_d12)>>),
     ng |-> 2, ci |-> FALSE],
    \* /(today|tomorrow)/i
    [re |-> R_grp(1, R_words(<<<<"t", "o", "d", "a", "y">>, <<"t", "o", "m", "o", "r", "r", "o", "w">>>>)),
     ng |-> 1, ci |-> TRUE],
    \* /(monday|tuesday|wednesday|thursday|friday|saturday|sunday)/i
    [re |-> R_grp(1, R_words(<<<<"m", "o", "n", "d", "a", "y">>,
                              <<"t", "u", "e", "s", "d", "a", "y">>,
                              <<"w", "e", "d", "n", "e", "s", "d", "a", "y">>,
                              <<"t", "h", "u", "r", "s", "d", "a", "y">>,
                              <<"f", "r", "i", "d", "a", "y">>,
                              <<"s", "a", "t", "u", "r", "d", "a", "y">>,
                              <<"s", "u", "n", "d", "a", "y">>>>)),
     ng |-> 1, ci |-> TRUE] >>

\* timePatterns
timePatterns == <<
    \* /(\d{1,2})\s*-\s*(\d{1,2})\s*(am|pm)?/i
    [re |-> R_seq(<<R_grp(1, R_d12), R_dash, R_grp(2, R_d12), R_ws0,
                    R_opt(R_grp(3, R_ampm))>>), ng |-> 3, ci |-> TRUE],
    \* /(\d{1,2}):(\d{2})\s*-\s*(\d{1,2}):(\d{2})/
    [re |-> R_seq(<<R_grp(1, R_d12), R_colon, R_grp(2, R_d2), R_dash,
                    R_grp(3, R_d12), R_colon, R_grp(4, R_d2)>>),
     ng |-> 4, ci |-> FALSE],
    \* /(\d{1,2})\s*(am|pm)/i
    [re |-> R_seq(<<R_grp(1, R_d12), R_ws0, R_grp(2, R_ampm)>>),
     ng |-> 2, ci |-> TRUE] >>

\* the first pattern of the list that matches s: [k, m], k = 0 when none
RECURSIVE firstMatching(_, _, _)
firstMatching(patterns, k, s) ==
    IF k > Len(patterns) THEN [k |-> 0, m |-> match(R_str(<<"x">>), 0, <<>>, FALSE)]
    ELSE The({ IF m.found THEN [k |-> k, m |-> m]
               ELSE firstMatching(patterns, k + 1, s) :
               m \in { match(patterns[k].re, patterns[k].ng, s, patterns[k].ci) } })

\* match[g] of a pattern with ng groups; <<>> is undefined (or empty)
grp(fm, patterns, s, g) ==
    IF fm.k = 0 \/ g > patterns[fm.k].ng THEN <<>> ELSE group(fm.m, s, g)

\* (variant: month and day are written without padStart)
isoDateUnpadded(year, month1, day) ==
    numToString(year) \o <<"-">> \o numToString(month1)
    \o <<"-">> \o numToString(day)

isoDate(year, month1, day) ==
    numToString(year) \o <<"-">> \o padStart(numToString(month1), 2)
    \o <<"-">> \o padStart(numToString(day), 2)

\* a range of the year between the days d1 and d2 of the month named by
\* the key; no range when monthMap has no such key
monthRange(year, key, d1, d2) ==
    The({ IF month # -1
          THEN [date    |-> isoDate(year, month + 1, parseInt(d1)),
                endDate |-> isoDate(year, month + 1, parseInt(d2))]
          ELSE [date |-> <<>>, endDate |-> <<>>] :
          month \in { monthMap(toLowerCase(key)) } })

\* the date-range loop: [date, endDate], <<>> for null
nlDateRange(cleanInput, now) ==
    The({ IF fm.k = 0 THEN [date |-> <<>>, endDate |-> <<>>]
          ELSE The({
              IF g3 # <<>> /\ g1 # <<>> /\ g2 # <<>>
              THEN \* "15-17 Oct"
                   monthRange(year, g3, g1, g2)
              ELSE IF g1 # <<>> /\ g2 # <<>> /\ g3 # <<>> /\ g4 # <<>>
              THEN \* "12/1-12/3"
                   [date    |-> isoDate(year, parseInt(g1), parseInt(g2)),
                    endDate |-> isoDate(year, parseInt(g3), parseInt(g4))]
              ELSE IF g1 # <<>> /\ g2 # <<>> /\ g3 # <<>>
              THEN \* "Oct 15-17"
                   monthRange(year, g1, g2, g3)
              ELSE [date |-> <<>>, endDate |-> <<>>] :
              g1 \in { grp(fm, dateRangePatterns, cleanInput, 1) },
              g2 \in { grp(fm, dateRangePatterns, cleanInput, 2) },
              g3 \in { grp(fm, dateRangePatterns, cleanInput, 3) },
              g4 \in { grp(fm, dateRangePatterns, cleanInput, 4) },
              year \in { getFullYear(now) } }) :
          fm \in { firstMatching(dateRangePatterns, 1, cleanInput) } })

\* the single-date loop: the date, <<>> for null
nlSingleDate(cleanInput, now) ==
    The({ IF fm.k = 0 THEN <<>>
          ELSE The({
              IF toLowerCase(g0) = <<"t", "o", "d", "a", "y">>
              THEN formatDateSafe(now)
              ELSE IF toLowerCase(g0) = <<"t", "o", "m", "o", "r", "r", "o", "w">>
              THEN formatDateSafe(now + 1)
              ELSE IF g1 # <<>> /\ g2 # <<>>
              THEN The({ IF month # -1
                         THEN isoDate(getFullYear(now), month + 1, parseInt(g1))
                         ELSE <<>> :
                         month \in { monthMap(toLowerCase(g2)) } })
              ELSE <<>> :
              g0 \in { grp(fm, datePatterns, cleanInput, 0) },
              g1 \in { grp(fm, datePatterns, cleanInput, 1) },
              g2 \in { grp(fm, datePatterns, cleanInput, 2) } }) :
          fm \in { firstMatching(datePatterns, 1, cleanInput) } })

hhmm(hour) == padStart(numToString(hour), 2) \o <<":", "0", "0">>

\* the hour on the 24-hour clock
hour24(hour, isPM) == IF isPM /\ hour # 12 THEN hour + 12 ELSE hour

\* the time loop: [startTime, endTime], <<>> for undefined
nlTimes(cleanInput) ==
    The({ IF fm.k = 0 THEN [startTime |-> <<>>, endTime |-> <<>>]
          ELSE The({
              IF g3 # <<>> /\ g1 # <<>> /\ g2 # <<>>
              THEN \* "2-4pm"
                   [startTime |-> hhmm(hour24(parseInt(g1), toLowerCase(g3) = <<"p", "m">>)),
                    endTime   |-> hhmm(hour24(parseInt(g2), toLowerCase(g3) = <<"p", "m">>))]
              ELSE IF g1 # <<>> /\ g2 # <<>>
              THEN \* "9am"
                   [startTime |-> hhmm(hour24(parseInt(g1), toLowerCase(g2) = <<"p", "m">>)),
                    endTime   |-> <<>>]
              ELSE [startTime |-> <<>>, endTime |-> <<>>] :
              g1 \in { grp(fm, timePatterns, cleanInput, 1) },
              g2 \in { grp(fm, timePatterns, cleanInput, 2) },
              g3 \in { grp(fm, timePatterns, cleanInput, 3) } }) :
          fm \in { firstMatching(timePatterns, 1, cleanInput) } })

\* the patterns that are cut out of the title
\* /\s+(on|at)?\s+\d{1,2}\s+(jan|...|dec)/i
R_titleDayMonth ==
    R_seq(<<R_ws1, R_opt(R_grp(1, R_alt(<<R_str(<<"o", "n">>), R_str(<<"a", "t">>)>>))),
            R_ws1, R_d12, R_ws1, R_grp(2, R_mon)>>)
\* /\s+(today|tomorrow)/i
R_titleToday ==
    R_seq(<<R_ws1, R_grp(1, R_words(<<<<"t", "o", "d", "a", "y">>, <<"t", "o", "m", "o", "r", "r", "o", "w">>>>))>>)
\* /\s+\d{1,2}\/\d{1,2}(\/\d{4})?/i
R_titleSlash ==
    R_seq(<<R_ws1, R_d12, R_slash, R_d12, R_opt(R_grp(1, R_seq(<<R_slash, R_d4>>)))>>)
\* /\s+\d{1,2}\s*-\s*\d{1,2}\s*(am|pm)?/i
R_titleHourRange ==
    R_seq(<<R_ws1, R_d12, R_dash, R_d12, R_ws0, R_opt(R_grp(1, R_ampm))>>)
\* /\s+\d{1,2}:\d{2}\s*-\s*\d{1,2}:\d{2}/i
R_titleClockRange ==
    R_seq(<<R_ws1, R_d12, R_colon, R_d2, R_dash, R_d12, R_colon, R_d2>>)
\* /\s+\d{1,2}\s*(am|pm)/i
R_titleHour ==
    R_seq(<<R_ws1, R_d12, R_ws0, R_grp(1, R_ampm)>>)

\* the three replaces under if (parsedDate)
nlStripDate(title) ==
    The({ The({ replaceFirst(R_titleSlash, 1, t2, TRUE, <<>>) :
                t2 \in { replaceFirst(R_titleToday, 1, t1, TRUE, <<>>) } }) :
          t1 \in { replaceFirst(R_titleDayMonth, 2, title, TRUE, <<>>) } })

\* the three replaces under if (startTime || endTime)
nlStripTime(title) ==
    The({ The({ replaceFirst(R_titleHour, 1, t2, TRUE, <<>>) :
                t2 \in { replaceFirst(R_titleClockRange, 0, t1, TRUE, <<>>) } }) :
          t1 \in { replaceFirst(R_titleHourRange, 1, title, TRUE, <<>>) } })

NullDraft ==
    [isNull |-> TRUE, title |-> <<>>, date |-> <<>>, endDate |-> <<>>,
     startTime |-> <<>>, endTime |-> <<>>, type |-> "NONE"]

\* the title that is left of the input once the date and the time are cut
nlTitle(input, hasDate, hasTime) ==
    The({ The({ trim(t2) : t2 \in { IF hasTime THEN nlStripTime(t1) ELSE t1 } }) :
          t1 \in { IF hasDate THEN nlStripDate(input) ELSE input } })

parseNaturalLanguage(input, now) ==
    The({ The({ The({ The({ IF title = <<>> \/ parsedDate = <<>> THEN NullDraft
                            ELSE [isNull |-> FALSE, title |-> title, date |-> parsedDate,
                                  endDate |-> range.endDate,
                                  startTime |-> times.startTime,
                                  endTime |-> times.endTime,
                                  type |-> nlType(cleanInput)] :
                            title \in { nlTitle(input, parsedDate # <<>>,
                                                times.startTime # <<>> \/ times.endTime # <<>>) } }) :
                      parsedDate \in { IF range.date # <<>> THEN range.date
                                       ELSE nlSingleDate(cleanInput, now) } }) :
                range \in { nlDateRange(cleanInput, now) },
                times \in { nlTimes(cleanInput) } }) :
          cleanInput \in { toLowerCase(trim(input)) } })
---------------------------------------------------------------------------
(* date-fns 3.6.0 and chrono-node as src/client/src/lib/bulkParser.ts      *)
(* uses them                                                               *)

InvalidDate == -1000000      \* new Date(NaN)

\* does s begin with w, letter case ignored
startsWithCI(s, w) == strAt(s, w, 1, TRUE)

\* the month (1..12) and the length of the month text that the LLLL token
\* of date-fns parse reads at the start of s: the wide name, else the
\* abbreviated name, else the narrow letter; month 0 when none matches
parseMonthToken(s) ==
    IF \E k \in 1..12 : startsWithCI(s, MonthWide[k])
    THEN The({ [month |-> k, len |-> Len(MonthWide[k])] :
               k \in { CHOOSE j \in 1..12 : startsWithCI(s, MonthWide[j]) } })
    ELSE IF \E k \in 1..12 : startsWithCI(s, MonthAbbr[k])
    THEN [month |-> CHOOSE k \in 1..12 : startsWithCI(s, MonthAbbr[k]), len |-> 3]
    ELSE IF \E k \in 1..12 : startsWithCI(s, <<MonthAbbr[k][1]>>)
    THEN [month |-> CHOOSE k \in 1..12 :
                      /\ startsWithCI(s, <<MonthAbbr[k][1]>>)
                      /\ \A j \in 1..(k - 1) : ~startsWithCI(s, <<MonthAbbr[j][1]>>),
          len |-> 1]
    ELSE [month |-> 0, len |-> 0]

validDay(y, m, d) == y >= 1 /\ m \in 1..12 /\ d >= 1 /\ d <= DaysInMonth(y, m)

\* parse(`${m} ${d}, ${yyyy}`, "LLLL d, yyyy", new Date()) where m is
\* letters, d one or two digits and yyyy four digits
parseExact(m, d, yyyy) ==
    The({ IF tok.month = 0 \/ tok.len # Len(m) THEN InvalidDate
          ELSE IF ~validDay(parseInt(yyyy), tok.month, parseInt(d)) THEN InvalidDate
          ELSE DaysFromCivil(parseInt(yyyy), tok.month, parseInt(d)) :
          tok \in { parseMonthToken(m) } })

\* (variant: the days of the interval without its Saturdays and Sundays)
eachWeekdayOfInterval(start, end) ==
    IF start = InvalidDate \/ end = InvalidDate THEN <<>>
    ELSE SelectSeq(IF start > end
                   THEN [i \in 1..(start - end + 1) |-> start - i + 1]
                   ELSE [i \in 1..(end - start + 1) |-> start + i - 1],
                   LAMBDA n : getDay(n) \notin {0, 6})

\* eachDayOfInterval({start, end}) of date-fns 3: an inverted interval gives
\* the days in descending order, an invalid bound gives no day
eachDayOfInterval(start, end) ==
    IF start = InvalidDate \/ end = InvalidDate THEN <<>>
    ELSE IF start > end
    THEN [i \in 1..(start - end + 1) |-> start - i + 1]
    ELSE [i \in 1..(end - start + 1) |-> start + i - 1]

addDays(n, k) == IF n = InvalidDate THEN InvalidDate ELSE n + k

\* formatISO(date, {representation: "date"}); throws on an invalid date
formatISO(n) == formatDateSafe(n)

\* chrono.parseDate for the phrases "<Month> <D>[,] [<YYYY>]", "today" and
\* "tomorrow"; InvalidDate stands for null.  A month and day without a year
\* take the year that brings the date closest to the reference date.
\* /\b(january|...|jan|...)\s+(\d{1,2})(?:\s*,?\s*(\d{4}))?\b/i
R_chronoMonthDay ==
    R_seq(<<R_wb, R_grp(1, R_words(<<<<"j", "a", "n", "u", "a", "r", "y">>,
                              <<"f", "e", "b", "r", "u", "a", "r", "y">>,
                              <<"m", "a", "r", "c", "h">>,
                              <<"a", "p", "r", "i", "l">>,
                              <<"m", "a", "y">>,
                              <<"j", "u", "n", "e">>,
                              <<"j", "u", "l", "y">>,
                              <<"a", "u", "g", "u", "s", "t">>,
                              <<"s", "e", "p", "t", "e", "m", "b", "e", "r">>,
                              <<"o", "c", "t", "o", "b", "e", "r">>,
                              <<"n", "o", "v", "e", "m", "b", "e", "r">>,
                              <<"d", "e", "c", "e", "m", "b", "e", "r">>,
                              <<"j", "a", "n">>,
                              <<"f", "e", "b">>,
                              <<"m", "a", "r">>,
                              <<"a", "p", "r">>,
                              <<"m", "a", "y">>,
                              <<"j", "u", "n">>,
                              <<"j", "u", "l">>,
                              <<"a", "u", "g">>,
                              <<"s", "e", "p">>,
                              <<"o", "c", "t">>,
                              <<"n", "o", "v">>,
                              <<"d", "e", "c">>>>)),
            R_ws1, R_grp(2, R_d12),
            R_opt(R_seq(<<R_ws0, R_opt(R_str(<<",">>)), R_ws0, R_grp(3, R_d4)>>)),
            R_wb>>)

R_chronoCasual ==
    R_seq(<<R_wb, R_grp(1, R_words(<<<<"t", "o", "d", "a", "y">>, <<"t", "o", "m", "o", "r", "r", "o", "w">>>>)), R_wb>>)

absInt(n) == IF n < 0 THEN -n ELSE n

closestYear(now, m, d) ==
    The({ IF cand = {} THEN 0
          ELSE CHOOSE yy \in cand : \A zz \in cand :
                  \/ absInt(DaysFromCivil(yy, m, d) - now) < absInt(DaysFromCivil(zz, m, d) - now)
                  \/ /\ absInt(DaysFromCivil(yy, m, d) - now) = absInt(DaysFromCivil(zz, m, d) - now)
                     /\ yy >= zz :
          cand \in { { yy \in { getFullYear(now) - 1, getFullYear(now), getFullYear(now) + 1 } :
                       validDay(yy, m, d) } } })

\* the date of a month-and-day match md of the text s
chronoMonthDay(md, s, now) ==
    The({ The({ IF validDay(y, m, d) THEN DaysFromCivil(y, m, d) ELSE InvalidDate :
                y \in { IF group(md, s, 3) # <<>> THEN parseInt(group(md, s, 3))
                        ELSE closestYear(now, m, d) } }) :
          m \in { parseMonthToken(group(md, s, 1)).month },
          d \in { parseInt(group(md, s, 2)) } })

chronoParseDate(s, now) ==
    The({ IF md.found /\ (~cs.found \/ md.index < cs.index)
          THEN chronoMonthDay(md, s, now)
          ELSE IF cs.found
          THEN IF toLowerCase(group(cs, s, 1)) = <<"t", "o", "d", "a", "y">>
               THEN now ELSE now + 1
          ELSE InvalidDate :
          md \in { match(R_chronoMonthDay, 3, s, TRUE) },
          cs \in { match(R_chronoCasual, 1, s, TRUE) } })

---------------------------------------------------------------------------
(* Bulk import: src/client/src/lib/bulkParser.ts                           *)

OPERATING_START == DaysFromCivil(2025, 8, 1)
OPERATING_END   == DaysFromCivil(2026, 7, 31)

\* (variant: the meeting keywords are looked for before the holiday ones)
guessTypeMeetingFirst(titleRaw) ==
    The({ IF includes(t, <<"m", "o", "n", "t", "h", "l", "y", " ", "r", "e", "v", "i", "e", "w">>) THEN "MONTHLY_REVIEW"
          ELSE IF \/ includes(t, <<"m", "e", "e", "t", "i", "n", "g">>)
                  \/ includes(t, <<"r", "e", "v", "i", "e", "w">>)
                  \/ includes(t, <<"a", "l", "i", "g", "n", "m", "e", "n", "t">>)
                  \/ includes(t, <<"k", "i", "c", "k", "o", "f", "f">>)
          THEN "MEETING"
          ELSE IF \/ includes(t, <<"h", "o", "l", "i", "d", "a", "y">>)
                  \/ includes(t, <<"a", "n", "n", "u", "a", "l", " ", "l", "e", "a", "v", "e">>)
                  \/ includes(t, <<"p", "t", "o">>)
          THEN "HOLIDAYS"
          ELSE "PLANNING" :
          t \in { toLowerCase(titleRaw) } })

guessType(titleRaw) ==
    The({ IF includes(t, <<"m", "o", "n", "t", "h", "l", "y", " ", "r", "e", "v", "i", "e", "w">>) THEN "MONTHLY_REVIEW"
          ELSE IF \/ includes(t, <<"h", "o", "l", "i", "d", "a", "y">>)
                  \/ includes(t, <<"a", "n", "n", "u", "a", "l", " ", "l", "e", "a", "v", "e">>)
                  \/ includes(t, <<"p", "t", "o">>)
          THEN "HOLIDAYS"
          ELSE IF \/ includes(t, <<"m", "e", "e", "t", "i", "n", "g">>)
                  \/ includes(t, <<"r", "e", "v", "i", "e", "w">>)
                  \/ includes(t, <<"a", "l", "i", "g", "n", "m", "e", "n", "t">>)
                  \/ includes(t, <<"k", "i", "c", "k", "o", "f", "f">>)
          THEN "MEETING"
          ELSE "PLANNING" :
          t \in { toLowerCase(titleRaw) } })

\* /\([^)]+\)/g
R_paren == R_seq(<<R_str(<<"(">>), R_plus(R_not({")"})), R_str(<<")">>)>>)
\* /\s*\([^)]+\)\s*$/
R_trailingParen == R_seq(<<R_ws0, R_str(<<"(">>), R_plus(R_not({")"})), R_str(<<")">>), R_ws0, R_eos>>)
\* /[ndash mdash]/g
R_longDash == R_set({"ndash"})
\* /week of\s+/i
R_weekOf == R_seq(<<R_str(<<"w", "e", "e", "k", " ", "o", "f">>), R_ws1>>)
\* /\b(jan|...|dec|january|...|december)\b/i
monthRegex ==
    R_seq(<<R_wb, R_grp(1, R_words(<<<<"j", "a", "n">>,
                              <<"f", "e", "b">>,
                              <<"m", "a", "r">>,
                              <<"a", "p", "r">>,
                              <<"m", "a", "y">>,
                              <<"j", "u", "n">>,
                              <<"j", "u", "l">>,
                              <<"a", "u", "g">>,
                              <<"s", "e", "p">>,
                              <<"o", "c", "t">>,
                              <<"n", "o", "v">>,
                              <<"d", "e", "c">>,
                              <<"j", "a", "n", "u", "a", "r", "y">>,
                              <<"f", "e", "b", "r", "u", "a", "r", "y">>,
                              <<"m", "a", "r", "c", "h">>,
                              <<"a", "p", "r", "i", "l">>,
                              <<"m", "a", "y">>,
                              <<"j", "u", "n", "e">>,
                              <<"j", "u", "l", "y">>,
                              <<"a", "u", "g", "u", "s", "t">>,
                              <<"s", "e", "p", "t", "e", "m", "b", "e", "r">>,
                              <<"o", "c", "t", "o", "b", "e", "r">>,
                              <<"n", "o", "v", "e", "m", "b", "e", "r">>,
                              <<"d", "e", "c", "e", "m", "b", "e", "r">>>>)), R_wb>>)
\* /([a-zA-Z]+)\s+(\d{1,2})\s*-\s*([a-zA-Z]+)?\s*(\d{1,2}),\s*(\d{4})/
range1 ==
    R_seq(<<R_grp(1, R_alpha), R_ws1, R_grp(2, R_d12), R_dash,
            R_opt(R_grp(3, R_alpha)), R_ws0, R_grp(4, R_d12), R_str(<<",">>),
            R_ws0, R_grp(5, R_d4)>>)
\* /([a-zA-Z]+)\s+(\d{1,2})-(\d{1,2}),\s*(\d{4})/
range2 ==
    R_seq(<<R_grp(1, R_alpha), R_ws1, R_grp(2, R_d12), R_str(<<"-">>),
            R_grp(3, R_d12), R_str(<<",">>), R_ws0, R_grp(4, R_d4)>>)

cleanTitle(s) ==
    The({ trim(cut) : cut \in { replaceFirst(R_trailingParen, 0, s, FALSE, <<>>) } })

\* the dates of the range1 match of the text t
range1Dates(t) ==
    The({ eachDayOfInterval(
              parseExact(group(r, t, 1), group(r, t, 2), group(r, t, 5)),
              parseExact(IF group(r, t, 3) # <<>> THEN group(r, t, 3) ELSE group(r, t, 1),
                         group(r, t, 4), group(r, t, 5))) :
          r \in { match(range1, 5, t, FALSE) } })

\* the dates of the range2 match of the text t
range2Dates(t) ==
    The({ eachDayOfInterval(
              parseExact(group(r, t, 1), group(r, t, 2), group(r, t, 4)),
              parseExact(group(r, t, 1), group(r, t, 3), group(r, t, 4))) :
          r \in { match(range2, 4, t, FALSE) } })

\* (variant: the parsed date is stored without the null check)
singleDateUnchecked(d) == <<d>>

\* if (d) dates = [d]
singleDate(d) == IF d # InvalidDate THEN <<d>> ELSE <<>>

\* (variant: five business days from the date chrono finds, as the comment
\* in the branch says)
weekOfDatesBusiness(after, now) ==
    IF test(range1, 5, after, FALSE) THEN range1Dates(after)
    ELSE IF test(range2, 4, after, FALSE) THEN range2Dates(after)
    ELSE The({ IF d # InvalidDate THEN eachWeekdayOfInterval(d, addDays(d, 6)) ELSE <<>> :
               d \in { chronoParseDate(after, now) } })

\* the week-of branch: the text after "week of" as a range, else five days
\* from the date chrono finds
weekOfDates(after, now) ==
    IF test(range1, 5, after, FALSE) THEN range1Dates(after)
    ELSE IF test(range2, 4, after, FALSE) THEN range2Dates(after)
    ELSE The({ IF d # InvalidDate THEN eachDayOfInterval(d, addDays(d, 4)) ELSE <<>> :
               d \in { chronoParseDate(after, now) } })

\* the body of the try block: the dates of the date part
tryDates(datePart, weekOf, now) ==
    IF test(range1, 5, datePart, FALSE) THEN range1Dates(datePart)
    ELSE IF test(range2, 4, datePart, FALSE) THEN range2Dates(datePart)
    ELSE IF weekOf
    THEN The({ weekOfDates(after, now) :
               after \in { replaceFirst(R_weekOf, 0, datePart, TRUE, <<>>) } })
    ELSE singleDate(chronoParseDate(datePart, now))

BulkEvent(type, title, date, startDate, endDate) ==
    [type |-> type, title |-> title, date |-> date,
     startDate |-> startDate, endDate |-> endDate]

\* (variant: a range gives one draft per day, as the doc comment says)
draftsOfPerDay(dates, type, title) ==
    [i \in 1..Len(dates) |-> BulkEvent(type, title, formatISO(dates[i]), <<>>, <<>>)]

\* the return statements behind the try block
draftsOf(dates, type, title) ==
    IF Len(dates) > 1
    THEN << BulkEvent(type, title, formatISO(dates[1]),
                      formatISO(dates[1]), formatISO(dates[Len(dates)])) >>
    ELSE [i \in 1..Len(dates) |-> BulkEvent(type, title, formatISO(dates[i]), <<>>, <<>>)]

\* the result of a call: threw is TRUE when an exception leaves the function
Returned(drafts) == [threw |-> FALSE, drafts |-> drafts]
Thrown == [threw |-> TRUE, drafts |-> <<>>]

\* the title part and the date part of the normalised line s: the line is
\* cut where its first month name begins
lineParts(s) ==
    The({ IF m.found
          THEN \* s.slice(0, idx) and s.slice(idx), idx counted from one here
               The({ [titlePart |-> cleanTitle(SubSeq(s, 1, idx - 1)),
                      datePart  |-> SubSeq(s, idx, Len(s))] :
                     idx \in { indexOf(toLowerCase(s), toLowerCase(group(m, s, 0))) } })
          ELSE [titlePart |-> cleanTitle(s), datePart |-> s] :
          m \in { match(monthRegex, 1, s, TRUE) } })

\* the line after the dash and parenthesis normalisation
normalise(raw) ==
    The({ The({ trim(replaceAll(R_paren, 0, spaced, FALSE, <<>>)) :
                spaced \in { replaceAll(R_dash, 0, dashed, FALSE, <<" ", "-", " ">>) } }) :
          dashed \in { replaceAll(R_longDash, 0, raw, FALSE, <<"-">>) } })

\* the statements of the function one after the other, each with the
\* values of the ones before it: raw; s; weekOf, titlePart and datePart;
\* dates and title; the returned drafts
parseLineToEvents(line, now) ==
    The({ IF v.raw = <<>> THEN Returned(<<>>)
          ELSE IF \E i \in 1..Len(v.dates) : v.dates[i] = InvalidDate THEN Thrown
          ELSE Returned(draftsOf(v.dates, guessType(v.title), v.title)) :
          v \in { [raw   |-> u.raw,
                   dates |-> tryDates(u.parts.datePart, u.weekOf, now),
                   \* cleanTitle(titlePart) || "Event"
                   title |-> The({ IF t # <<>> THEN t ELSE <<"E", "v", "e", "n", "t">> :
                                   t \in { cleanTitle(u.parts.titlePart) } })] :
                  u \in { [raw    |-> w.raw,
                           weekOf |-> test(R_weekOf, 0, w.s, TRUE),
                           parts  |-> lineParts(w.s)] :
                          w \in { [raw |-> raw, s |-> normalise(raw)] :
                                  raw \in { trim(line) } } } } })

\* String.prototype.split(/\r?\n/)
splitLines(t) ==
    LET nl    == { i \in 1..Len(t) : t[i] = "\n" }
        nth(k) == IF k = 0 THEN 0
                  ELSE IF k > Cardinality(nl) THEN Len(t) + 1
                  ELSE CHOOSE p \in nl : Cardinality({ q \in nl : q < p }) = k - 1
        \* the last character of line k, without the \r of a \r\n
        last(k) == IF /\ nth(k) <= Len(t)
                      /\ nth(k) - 1 > nth(k - 1)
                      /\ t[nth(k) - 1] = "\r"
                   THEN nth(k) - 2 ELSE nth(k) - 1
    IN  [k \in 1..(Cardinality(nl) + 1) |-> SubSeq(t, nth(k - 1) + 1, last(k))]

\* the drafts of the cells <<line, index, draft>> in the order of the line
\* and, within a line, of the index
inOrder(cells) ==
    [n \in 1..Cardinality(cells) |->
        (CHOOSE c \in cells :
            Cardinality({ d \in cells : d[1] < c[1] \/ (d[1] = c[1] /\ d[2] < c[2]) })
            = n - 1)[3]]

\* (variant: each line's drafts are put in front of the earlier ones)
flatMapFront(lines, now) ==
    The({ IF \E o \in outs : o[2].threw THEN Thrown
          ELSE The({ Returned(inOrder(cells)) :
                     cells \in { UNION { { <<0 - o[1], j, o[2].drafts[j]>> :
                                           j \in 1..Len(o[2].drafts) } : o \in outs } } }) :
          outs \in { { <<k, parseLineToEvents(lines[k], now)>> : k \in 1..Len(lines) } } })

\* lines.flatMap(parseLineToEvents): the drafts of the lines one after the
\* other; an exception of a call leaves the function
flatMap(lines, now) ==
    The({ IF \E o \in outs : o[2].threw THEN Thrown
          ELSE The({ Returned(inOrder(cells)) :
                     cells \in { UNION { { <<o[1], j, o[2].drafts[j]>> :
                                           j \in 1..Len(o[2].drafts) } : o \in outs } } }) :
          outs \in { { <<k, parseLineToEvents(lines[k], now)>> : k \in 1..Len(lines) } } })

\* new Date("YYYY-MM-DD"): the day number of an ISO date text
newDate(iso) ==
    DaysFromCivil(parseInt(SubSeq(iso, 1, 4)), parseInt(SubSeq(iso, 6, 7)),
                  parseInt(SubSeq(iso, 9, 10)))

\* (variant: the window test excludes the two boundary days)
inOperatingYearOpen(draft) ==
    /\ newDate(draft.date) > OPERATING_START
    /\ newDate(draft.date) < OPERATING_END

\* the predicate of the clip filter:
\* !isBefore(d, OPERATING_START) && !isAfter(d, OPERATING_END)
inOperatingYear(draft) ==
    /\ ~(newDate(draft.date) < OPERATING_START)
    /\ ~(newDate(draft.date) > OPERATING_END)

parseBulkText(t, clipToOperatingYear, now) ==
    The({ IF all.threw \/ ~clipToOperatingYear THEN all
          ELSE Returned(SelectSeq(all.drafts, inOperatingYear)) :
          all \in { flatMap(splitLines(t), now) } })

---------------------------------------------------------------------------
(* Values of the component state before a handler has run                  *)

\* the sidebar before handleQuickAdd has called parseNaturalLanguage
NotParsed == [called |-> FALSE, input |-> <<>>, draft |-> NullDraft]

\* useState<BulkEvent[]>([]) before handlePreview has run
NotPreviewed == [called |-> FALSE, threw |-> FALSE, drafts |-> <<>>]


---------------------------------------------------------------------------
(* What a week of the grid draws: day cells and spanning chips             *)

\* calendarStore.isEventOnDate
isEventOnDate(e, d) ==
    IF e.endDate = NoDate THEN e.date = d
    ELSE d >= e.date /\ d <= e.endDate

\* calendarStore.getEventsForDate
getEventsForDate(evs, d) == SelectSeq(evs, LAMBDA e : isEventOnDate(e, d))

\* DroppableDay: the events that are drawn inside the cell of day d
dayEvents(evs, d) == SelectSeq(getEventsForDate(evs, d), LAMBDA e : ~isMultiDayEvent(e))

\* SpanningEventCard: the days of the week that the event spans
weekEventDays(e, week) ==
    SelectSeq(week, LAMBDA weekDay :
        \E i \in DOMAIN eachDayOfInterval(e.date, e.endDate) :
            eachDayOfInterval(e.date, e.endDate)[i] = weekDay)

\* renderMonth: eventLanes.get(event.id) || 0
laneProp(eventLanes, id) ==
    IF \E i \in DOMAIN eventLanes : eventLanes[i][1] = id
    THEN eventLanes[CHOOSE i \in DOMAIN eventLanes : eventLanes[i][1] = id][2]
    ELSE 0

\* SpanningEventCard: nothing is drawn without a day in the week, else a chip
\* from column startIndex on, spanDays columns wide, in the given lane
SpanningEventCard(e, week, lane) ==
    IF weekEventDays(e, week) = <<>>
    THEN [drawn |-> FALSE, startIndex |-> 0, spanDays |-> 0, lane |-> lane]
    ELSE [drawn      |-> TRUE,
          startIndex |-> findIndex(week, weekEventDays(e, week)[1]),
          spanDays   |-> Len(weekEventDays(e, week)),
          lane       |-> lane]
---------------------------------------------------------------------------
(* State machine of the calendar grid                                      *)

NoResult == [eventLanes |-> <<>>, maxLanes |-> 0, lanes |-> <<>>]

InitLanes ==
    /\ events = <<>>
    /\ weekDays = <<>>
    /\ laneEvents = <<>>
    /\ laneResult = NoResult
    /\ today = DaysFromCivil(2025, 10, 1)
    /\ quickAddInput = <<>>
    /\ parsed = NotParsed
    /\ text = <<>>
    /\ clip = TRUE
    /\ preview = NotPreviewed
    /\ isLoading = FALSE
    /\ db = {}
    /\ calls = <<>>

\* storage.createEvent appends an event with a fresh id to the store
CreateEvent ==
    /\ Len(events) < MaxEvents
    /\ \E d \in EventDates, e \in EventEndDates :
          events' = Append(events,
                           [id |-> Len(events) + 1, date |-> d, endDate |-> e])
    /\ weekDays' = <<>>
    /\ laneEvents' = <<>>
    /\ laneResult' = NoResult
    /\ UNCHANGED <<today, nlVars, bulkVars, storeVars>>

\* renderMonth lays out one week of the month
RenderWeek ==
    /\ \E w \in 1..MaxWeeks :
          LET week == monthWeeks[w]
              evs  == weekSpanningEvents(events, week)
          IN  /\ w <= Len(monthWeeks)
              /\ weekDays' = week
              /\ laneEvents' = evs
              /\ laneResult' = assignEventLanes(evs, week)
    /\ UNCHANGED <<events, today, nlVars, bulkVars, storeVars>>

NextLanes == CreateEvent \/ RenderWeek

SpecLanes == InitLanes /\ [][NextLanes]_vars

---------------------------------------------------------------------------
(* State machine of the sidebar's quick add                                *)

\* what the user types in front of the date
QuickAddTitles == {
    <<>>,
    <<"T", "e", "a", "m", " ", "M", "e", "e", "t", "i", "n", "g">>,
    <<"C", "o", "n", "f", "e", "r", "e", "n", "c", "e">>,
    <<"m", "o", "n", "t", "h", "l", "y", " ", "r", "e", "v", "i", "e", "w", " ", "p", "l", "a", "n", "n", "i", "n", "g">>,
    <<"H", "o", "l", "i", "d", "a", "y", " ", "M", "e", "e", "t", "i", "n", "g">>,
    <<"M", "o", "n", "t", "h", "l", "y", " ", "R", "e", "v", "i", "e", "w">>,
    <<"V", "a", "c", "a", "t", "i", "o", "n">> }

\* the date phrases of the quick-add field
QuickAddDates == {
    <<>>,
    <<"t", "o", "d", "a", "y">>,
    <<"t", "o", "m", "o", "r", "r", "o", "w">>,
    <<"1", "5", " ", "o", "c", "t">>,
    <<"o", "n", " ", "1", "5", " ", "O", "c", "t">>,
    <<"o", "n", " ", "N", "o", "v", " ", "1", "5">>,
    <<"5", "-", "7", " ", "o", "c", "t">>,
    <<"1", "5", "-", "1", "7", " ", "o", "c", "t">>,
    <<"1", "7", "-", "1", "5", " ", "o", "c", "t">>,
    <<"o", "c", "t", " ", "1", "5", "-", "1", "7">>,
    <<"1", "2", "/", "1", "-", "1", "2", "/", "3">>,
    <<"1", "2", "/", "2", "5", "/", "2", "0", "2", "5">>,
    <<"f", "r", "i", "d", "a", "y">> }

\* the time phrases of the quick-add field
QuickAddTimes == {
    <<>>,
    <<"2", "-", "4", "p", "m">>,
    <<"9", "a", "m">>,
    <<"9", ":", "0", "0", "-", "1", "1", ":", "3", "0">> }

\* the words of a quick-add text, one blank between them
joinWords(a, b) == IF a = <<>> THEN b ELSE IF b = <<>> THEN a ELSE a \o <<" ">> \o b

QuickAddInputs ==
    { joinWords(joinWords(t, d), h) :
        t \in QuickAddTitles, d \in QuickAddDates, h \in QuickAddTimes }

\* the days the field is used on: an ordinary day and the last day of a year
Clocks == { DaysFromCivil(2025, 10, 1), DaysFromCivil(2025, 12, 31) }

InitNL ==
    /\ events = <<>>
    /\ weekDays = <<>>
    /\ laneEvents = <<>>
    /\ laneResult = NoResult
    /\ today \in Clocks
    /\ quickAddInput \in QuickAddInputs
    /\ parsed = NotParsed
    /\ text = <<>>
    /\ clip = TRUE
    /\ preview = NotPreviewed
    /\ isLoading = FALSE
    /\ db = {}
    /\ calls = <<>>

\* handleQuickAdd: parse the field; a draft is stored with createEvent and
\* the field is cleared, a null leaves the field as it is
HandleQuickAdd ==
    /\ trim(quickAddInput) # <<>>
    /\ \E p \in { parseNaturalLanguage(quickAddInput, today) } :
          /\ parsed' = [called |-> TRUE, input |-> quickAddInput, draft |-> p]
          /\ IF p.isNull THEN UNCHANGED <<events, quickAddInput>>
             ELSE /\ events' = Append(events,
                       [id |-> Len(events) + 1, title |-> p.title,
                        type |-> IF p.type = "NONE" THEN "MEETING" ELSE p.type,
                        date |-> p.date, startTime |-> p.startTime,
                        endTime |-> p.endTime])
                  /\ quickAddInput' = <<>>
    /\ UNCHANGED <<weekDays, laneEvents, laneResult, today, bulkVars, storeVars>>

NextNL == HandleQuickAdd

SpecNL == InitNL /\ [][NextNL]_vars

---------------------------------------------------------------------------
(* State machine of the bulk paste importer                                *)

MaxLines == 2      \* lines of a pasted text

\* a line without a date
L_notes == <<"N", "o", " ", "d", "a", "t", "e", " ", "y", "e", "t">>
\* a range of days that do not exist
L_audit == <<"T", "a", "x", " ", "F", "e", "b", " ", "3", "0", " ", "-", " ", "3", "1", ",", " ", "2", "0", "2", "6">>

BulkLines == {
    \* an empty line
    <<>>,
    \* a line of blanks
    <<" ", " ">>,
    \* a single day, the first day of the operating year
    <<"K", "i", "c", "k", "o", "f", "f", " ", "A", "u", "g", " ", "1", ",", " ", "2", "0", "2", "5">>,
    \* a single day, the last day of the operating year
    <<"R", "e", "v", "i", "e", "w", " ", "J", "u", "l", " ", "3", "1", ",", " ", "2", "0", "2", "6">>,
    \* a range before the operating year
    <<"S", "y", "n", "c", " ", "J", "u", "l", " ", "9", "-", "1", "0", ",", " ", "2", "0", "2", "5", " ", "(", "W", "e", "d", "-", "T", "h", "u", ")">>,
    \* a range written across the turn of the year, after the operating year
    <<"S", "k", "i", " ", "D", "e", "c", " ", "2", "9", " ", "-", " ", "J", "a", "n", " ", "2", ",", " ", "2", "0", "2", "6">>,
    L_notes, L_audit }

\* the lines of a text behind one another, a newline between two lines
RECURSIVE joinLines(_)
joinLines(ls) ==
    IF Len(ls) = 0 THEN <<>>
    ELSE IF Len(ls) = 1 THEN ls[1]
    ELSE ls[1] \o <<"\n">> \o joinLines(Tail(ls))

\* what the user pastes into the textarea
BulkTexts ==
    UNION { { joinLines(ls) : ls \in [1..n -> BulkLines] } : n \in 1..MaxLines }

\* the day the importer is used on
BulkDay == DaysFromCivil(2025, 10, 1)

InitBulk ==
    /\ events = <<>>
    /\ weekDays = <<>>
    /\ laneEvents = <<>>
    /\ laneResult = NoResult
    /\ today = BulkDay
    /\ quickAddInput = <<>>
    /\ parsed = NotParsed
    /\ text \in BulkTexts
    /\ clip \in BOOLEAN
    /\ preview = NotPreviewed
    /\ isLoading = FALSE
    /\ db = {}
    /\ calls = <<>>

\* handlePreview: setPreview(parseBulkText(text, {clipToOperatingYear: clip}));
\* an exception of parseBulkText leaves the handler before setPreview
HandlePreview ==
    /\ \E evts \in { parseBulkText(text, clip, today) } :
          preview' = [called |-> TRUE, threw |-> evts.threw,
                      drafts |-> IF evts.threw THEN preview.drafts ELSE evts.drafts]
    /\ UNCHANGED <<laneVars, today, nlVars, text, clip, storeVars>>

NextBulk == HandlePreview

SpecBulk == InitBulk /\ [][NextBulk]_vars

---------------------------------------------------------------------------
(* State machine of the bulk paste importer with a text of one line        *)

\* the lines: what stands in front of the date; the date (a range within a
\* month, ranges across the end of a month, single days, a range of one
\* day); the note on the weekdays behind the date
LineCases ==
    [title : { <<>>,
               <<"P", "r", "o", "d", "u", "c", "t", " ", "M", "n", "g", "t", " ", "L", "e", "a", "d", "e", "r", " ", "R", "e", "v", "i", "e", "w">>,
               <<"C", "o", "m", "m", "i", "t", " ", "D", "o", "c", "u", "m", "e", "n", "t", "a", "t", "i", "o", "n", " ", "W", "e", "e", "k", " ", "o", "f">>,
               <<"H", "o", "l", "i", "d", "a", "y", " ", "M", "e", "e", "t", "i", "n", "g">>,
               <<"M", "o", "n", "t", "h", "l", "y", " ", "R", "e", "v", "i", "e", "w", " ", "M", "e", "e", "t", "i", "n", "g">>,
               <<"F", "o", "l", "l", "o", "w", "-", "u", "p">>,
               <<"M", "a", "r", "k", "e", "t", "i", "n", "g", " ", "S", "y", "n", "c">>,
               <<"O", "f", "f", "s", "i", "t", "e">> },
     date  : { <<"J", "u", "l", "y", " ", "9", "-", "1", "0", ",", " ", "2", "0", "2", "5">>,
               <<"J", "u", "l", "y", " ", "2", "8", " ", "-", " ", "A", "u", "g", " ", "1", ",", " ", "2", "0", "2", "5">>,
               <<"J", "a", "n", " ", "3", "1", "ndash", "F", "e", "b", " ", "2", ",", " ", "2", "0", "2", "6">>,
               <<"J", "u", "l", "y", " ", "1", ",", " ", "2", "0", "2", "5">>,
               <<"M", "a", "r", " ", "3", ",", " ", "2", "0", "2", "6">>,
               <<"M", "a", "r", "c", "h", " ", "9", "-", "9", ",", " ", "2", "0", "2", "6">> },
     note  : { <<>>, <<"(", "W", "e", "d", "-", "T", "h", "u", ")">> }]

\* the text of a line: title, date and note, one blank between them
lineOf(c) == joinWords(joinWords(c.title, c.date), c.note)

InitLine ==
    /\ events = <<>>
    /\ weekDays = <<>>
    /\ laneEvents = <<>>
    /\ laneResult = NoResult
    /\ today = BulkDay
    /\ quickAddInput = <<>>
    /\ parsed = NotParsed
    /\ text \in { lineOf(c) : c \in LineCases }
    /\ clip = FALSE
    /\ preview = NotPreviewed
    /\ isLoading = FALSE
    /\ db = {}
    /\ calls = <<>>

SpecLine == InitLine /\ [][NextBulk]_vars


---------------------------------------------------------------------------
(* State machine of the two parsers under a moving system clock            *)

InitClock ==
    /\ events = <<>>
    /\ weekDays = <<>>
    /\ laneEvents = <<>>
    /\ laneResult = NoResult
    /\ today = DaysFromCivil(2025, 10, 1)
    /\ quickAddInput \in { joinWords(<<"C", "o", "n", "f", "e", "r", "e", "n", "c", "e">>, d) : d \in QuickAddDates }
    /\ parsed = NotParsed
    /\ text \in { <<"K", "i", "c", "k", "o", "f", "f", " ", "A", "u", "g", " ", "1">>, <<"K", "i", "c", "k", "o", "f", "f", " ", "A", "u", "g", " ", "1", ",", " ", "2", "0", "2", "5">> }
    /\ clip = FALSE
    /\ preview = NotPreviewed
    /\ isLoading = FALSE
    /\ db = {}
    /\ calls = <<>>

\* handleKeyPress: Enter in the quick-add field runs handleQuickAdd
PressEnter ==
    /\ Len(events) < MaxEvents
    /\ HandleQuickAdd

\* the user types the text of the last quick add into the cleared field
Retype ==
    /\ quickAddInput = <<>>
    /\ parsed.called
    /\ quickAddInput' = parsed.input
    /\ UNCHANGED <<laneVars, today, parsed, bulkVars, storeVars>>

\* time passes: new Date() gives a later day, of this year or of the next
ClockTick ==
    /\ \E d \in Clocks \cup { DaysFromCivil(2026, 10, 1) } :
          /\ d > today
          /\ today' = d
    /\ UNCHANGED <<laneVars, nlVars, bulkVars, storeVars>>

NextClock == PressEnter \/ Retype \/ ClockTick \/ HandlePreview

SpecClock == InitClock /\ [][NextClock]_vars

---------------------------------------------------------------------------
(* State machine of drag and drop in the calendar grid                     *)

\* the events of the store as createEvent can have put them there
StoredEvents ==
    { [id |-> i, date |-> d, endDate |-> e] : i \in {0}, d \in EventDates, e \in EventEndDates }

\* the days with a DroppableDay: the working days of the rendered weeks
DropDays == { monthWeeks[w][k] : w \in 1..MaxWeeks, k \in 1..5 }

InitDrag ==
    /\ events \in { <<[a EXCEPT !.id = 1]>> : a \in StoredEvents }
                  \cup { <<[a EXCEPT !.id = 1], [b EXCEPT !.id = 2]>> :
                           a \in StoredEvents, b \in { c \in StoredEvents : c.endDate = c.date } }
    /\ weekDays = <<>>
    /\ laneEvents = <<>>
    /\ laneResult = NoResult
    /\ today = DaysFromCivil(2025, 10, 1)
    /\ quickAddInput = <<>>
    /\ parsed = NotParsed
    /\ text = <<>>
    /\ clip = TRUE
    /\ preview = NotPreviewed
    /\ isLoading = FALSE
    /\ db = {}
    /\ calls = <<>>

\* handleDragEnd: the event events[i] is dropped on the cell of dropDate (newDate);
\* a multi-day event is moved with its duration, of any other event only
\* the date is updated
HandleDragEnd ==
    /\ \E i \in 1..Len(events), dropDate \in DropDays :
          /\ dropDate # events[i].date
          /\ IF isMultiDayEvent(events[i])
             THEN \E duration \in { events[i].endDate - events[i].date } :
                     events' = [events EXCEPT ![i].date = dropDate,
                                              ![i].endDate = dropDate + duration]
             ELSE events' = [events EXCEPT ![i].date = dropDate]
    /\ weekDays' = <<>>
    /\ laneEvents' = <<>>
    /\ laneResult' = NoResult
    /\ UNCHANGED <<today, nlVars, bulkVars, storeVars>>

NextDrag == HandleDragEnd

SpecDrag == InitDrag /\ [][NextDrag]_vars

---------------------------------------------------------------------------
(* State machine of the calendar store: calls that overlap                 *)

MaxCalls == 3      \* store operations that are called in one run

\* a call of a store operation: phase is "called" once the operation has set
\* isLoading, "read" once updateEvent has its db.get, "done" once the call
\* has resolved, "failed" once it has thrown; id is the event of an update
\* or a delete, existing the record that db.get returned
Call(op, id) == [op |-> op, id |-> id, phase |-> "called", existing |-> <<>>]

\* storage.getAllEvents: db.getAll gives the records in the order of their keys
getAllEvents(store) ==
    [n \in 1..Cardinality(store) |->
        CHOOSE e \in store : Cardinality({ f \in store : f.id < e.id }) = n - 1]

InFlight == { k \in 1..Len(calls) : calls[k].phase \in { "called", "read" } }

InitStore ==
    /\ events = <<>>
    /\ weekDays = <<>>
    /\ laneEvents = <<>>
    /\ laneResult = NoResult
    /\ today = DaysFromCivil(2025, 10, 1)
    /\ quickAddInput = <<>>
    /\ parsed = NotParsed
    /\ text = <<>>
    /\ clip = TRUE
    /\ preview = NotPreviewed
    /\ isLoading = FALSE
    /\ db = {}
    /\ calls = <<>>

\* the synchronous head of loadEvents: set({ isLoading: true, error: null })
CallLoadEvents ==
    /\ Len(calls) < MaxCalls
    /\ calls' = Append(calls, Call("loadEvents", 0))
    /\ isLoading' = TRUE
    /\ UNCHANGED <<laneVars, today, nlVars, bulkVars, db>>

\* the synchronous head of createEvent
CallCreateEvent ==
    /\ Len(calls) < MaxCalls
    /\ calls' = Append(calls, Call("createEvent", 0))
    /\ isLoading' = TRUE
    /\ UNCHANGED <<laneVars, today, nlVars, bulkVars, db>>

\* the synchronous head of updateEvent, for an event that the store shows
CallUpdateEvent ==
    /\ Len(calls) < MaxCalls
    /\ \E i \in 1..Len(events) :
          calls' = Append(calls, Call("updateEvent", events[i].id))
    /\ isLoading' = TRUE
    /\ UNCHANGED <<laneVars, today, nlVars, bulkVars, db>>

\* the synchronous head of deleteEvent, for an event that the store shows
CallDeleteEvent ==
    /\ Len(calls) < MaxCalls
    /\ \E i \in 1..Len(events) :
          calls' = Append(calls, Call("deleteEvent", events[i].id))
    /\ isLoading' = TRUE
    /\ UNCHANGED <<laneVars, today, nlVars, bulkVars, db>>

\* loadEvents behind its await: storage.getAllEvents() and set({ events })
LoadEventsResolves ==
    /\ \E k \in InFlight :
          /\ calls[k].op = "loadEvents"
          /\ events' = getAllEvents(db)
          /\ calls' = [calls EXCEPT ![k].phase = "done"]
    /\ isLoading' = FALSE
    /\ weekDays' = <<>>
    /\ laneEvents' = <<>>
    /\ laneResult' = NoResult
    /\ UNCHANGED <<today, nlVars, bulkVars, db>>

\* createEvent behind its await: db.add of the event with a fresh id and
\* set(state => ({ events: [...state.events, newEvent] }))
CreateEventResolves ==
    /\ \E k \in InFlight :
          /\ calls[k].op = "createEvent"
          /\ \E newEvent \in { [id |-> k, date |-> DaysFromCivil(2025, 10, 6),
                                endDate |-> NoDate] } :
                /\ db' = db \cup { newEvent }
                /\ events' = Append(events, newEvent)
          /\ calls' = [calls EXCEPT ![k].phase = "done"]
    /\ isLoading' = FALSE
    /\ weekDays' = <<>>
    /\ laneEvents' = <<>>
    /\ laneResult' = NoResult
    /\ UNCHANGED <<today, nlVars, bulkVars>>

\* storage.updateEvent, first await: db.get(id); without a record it throws
\* and updateEvent sets the error and isLoading: false
UpdateEventReads ==
    /\ \E k \in InFlight :
          /\ calls[k].op = "updateEvent"
          /\ calls[k].phase = "called"
          /\ IF \E e \in db : e.id = calls[k].id
             THEN /\ calls' = [calls EXCEPT ![k].phase = "read",
                                            ![k].existing = CHOOSE e \in db : e.id = calls[k].id]
                  /\ UNCHANGED isLoading
             ELSE /\ calls' = [calls EXCEPT ![k].phase = "failed"]
                  /\ isLoading' = FALSE
    /\ UNCHANGED <<laneVars, today, nlVars, bulkVars, db>>

\* storage.updateEvent, second await: db.put of the merged record, and the
\* set that maps it into state.events
UpdateEventResolves ==
    /\ \E k \in InFlight :
          /\ calls[k].op = "updateEvent"
          /\ calls[k].phase = "read"
          /\ \E updatedEvent \in { [calls[k].existing EXCEPT
                                       !.date = DaysFromCivil(2025, 10, 7)] } :
                /\ db' = { e \in db : e.id # calls[k].id } \cup { updatedEvent }
                /\ events' = [i \in 1..Len(events) |->
                                 IF events[i].id = calls[k].id THEN updatedEvent
                                 ELSE events[i]]
          /\ calls' = [calls EXCEPT ![k].phase = "done"]
    /\ isLoading' = FALSE
    /\ weekDays' = <<>>
    /\ laneEvents' = <<>>
    /\ laneResult' = NoResult
    /\ UNCHANGED <<today, nlVars, bulkVars>>

\* deleteEvent behind its await: db.delete(id) and the filter of state.events
DeleteEventResolves ==
    /\ \E k \in InFlight :
          /\ calls[k].op = "deleteEvent"
          /\ db' = { e \in db : e.id # calls[k].id }
          /\ events' = SelectSeq(events, LAMBDA e : e.id # calls[k].id)
          /\ calls' = [calls EXCEPT ![k].phase = "done"]
    /\ isLoading' = FALSE
    /\ weekDays' = <<>>
    /\ laneEvents' = <<>>
    /\ laneResult' = NoResult
    /\ UNCHANGED <<today, nlVars, bulkVars>>

NextStore ==
    \/ CallLoadEvents \/ CallCreateEvent \/ CallUpdateEvent \/ CallDeleteEvent
    \/ LoadEventsResolves \/ CreateEventResolves
    \/ UpdateEventReads \/ UpdateEventResolves \/ DeleteEventResolves

SpecStore == InitStore /\ [][NextStore]_vars
---------------------------------------------------------------------------
(* Lane assignment: claims                                                 *)

\* the interval of every event of the week, by position in laneEvents
WeekIntervals == [i \in 1..Len(laneEvents) |-> toInterval(laneEvents[i], weekDays)]

\* positions of the events that keep an interval (start index <= end index)
Retained(iv) == { i \in DOMAIN iv : iv[i].start <= iv[i].end }

LaneEntries == { laneResult.eventLanes[i] : i \in 1..Len(laneResult.eventLanes) }

\* number of retained intervals that cover day index k of the week
CoverAt(iv, k) ==
    Cardinality({ i \in Retained(iv) : iv[i].start <= k /\ k <= iv[i].end })

\* C1: two different events that received the same lane index never have
\* overlapping week-relative intervals.
C1_NoCollisionInLane ==
    LET iv == WeekIntervals IN
    \A i \in DOMAIN iv : \A j \in DOMAIN iv :
        \A a \in LaneEntries : \A b \in LaneEntries :
            (/\ i # j
             /\ a[1] = iv[i].id /\ b[1] = iv[j].id
             /\ a[2] = b[2])
            => (iv[i].end < iv[j].start \/ iv[j].end < iv[i].start)

\* two events share a lane while a third one had to take another lane
C1_Witness ==
    /\ laneResult.maxLanes = 2
    /\ \E a \in LaneEntries : \E b \in LaneEntries : a[1] # b[1] /\ a[2] = b[2]

\* C2: maxLanes is the largest number of retained intervals that cover one
\* day index of the week.
C2_LaneMinimal ==
    weekDays # <<>> =>
        LET iv    == WeekIntervals
            cover == [k \in 0..(Len(weekDays) - 1) |-> CoverAt(iv, k)]
        IN  /\ \A k \in DOMAIN cover : cover[k] <= laneResult.maxLanes
            /\ \/ \E k \in DOMAIN cover : cover[k] = laneResult.maxLanes
               \/ laneResult.maxLanes = 0

\* the spans [0,4], [0,1], [2,3] were laid out in two lanes
C2_Witness ==
    LET iv == WeekIntervals IN
    /\ Len(iv) = 3
    /\ { <<iv[i].start, iv[i].end>> : i \in DOMAIN iv }
          = { <<0, 4>>, <<0, 1>>, <<2, 3>> }
    /\ laneResult.maxLanes = 2

\* C3: every retained event has exactly one lane, every lane index lies in
\* 0..maxLanes-1, every index of that range is used, and no events give an
\* empty map with maxLanes = 0.
C3_WellFormed ==
    weekDays # <<>> =>
        LET iv == WeekIntervals IN
        /\ { en[1] : en \in LaneEntries } = { iv[i].id : i \in Retained(iv) }
        /\ Len(laneResult.eventLanes) = Cardinality(Retained(iv))
        /\ \A en \in LaneEntries : en[2] \in 0..(laneResult.maxLanes - 1)
        /\ \A l \in 0..(laneResult.maxLanes - 1) :
              \E en \in LaneEntries : en[2] = l
        /\ (Len(laneEvents) = 0 =>
              laneResult.eventLanes = <<>> /\ laneResult.maxLanes = 0)

\* a week with a dropped event beside events in two used lanes
C3_Witness ==
    /\ Len(laneEvents) = 3
    /\ Cardinality(Retained(WeekIntervals)) = 2
    /\ laneResult.maxLanes = 2

---------------------------------------------------------------------------
(* Quick add: claims                                                       *)

\* the quick-add texts that consist of date and time phrases only
TokenOnlyInputs ==
    { joinWords(d, h) : d \in QuickAddDates, h \in QuickAddTimes } \ {<<>>}

\* the quick-add texts without a date phrase
DatelessInputs ==
    { joinWords(t, h) : t \in QuickAddTitles, h \in QuickAddTimes } \ {<<>>}

\* YYYY-MM-DD as the number YYYYMMDD
isoNumber(iso) ==
    parseInt(SubSeq(iso, 1, 4)) * 10000 + parseInt(SubSeq(iso, 6, 7)) * 100
    + parseInt(SubSeq(iso, 9, 10))

\* a <= b for two dates written YYYY-MM-DD
IsoLE(a, b) == isoNumber(a) <= isoNumber(b)

\* C4: parseNaturalLanguage returns null whenever no date is extracted or
\* the title left after removing the date and time tokens is empty; a text
\* of date and time tokens only ("tomorrow", "tomorrow 2-4pm") yields null,
\* never a draft.
C4_NullWithoutDateOrTitle ==
    parsed.called =>
        /\ parsed.input \in DatelessInputs => parsed.draft.isNull
        /\ parsed.input \in TokenOnlyInputs => parsed.draft.isNull
        /\ ~parsed.draft.isNull =>
              parsed.draft.title # <<>> /\ parsed.draft.date # <<>>

\* C5: every draft of parseNaturalLanguage is single-day (date, optional
\* times, no endDate) or multi-day (date and endDate, no startTime and no
\* endTime), never a mix; a date range never comes with a startTime.
C5_ShapesNeverMixed ==
    (parsed.called /\ ~parsed.draft.isNull) =>
        \/ parsed.draft.endDate = <<>>
        \/ /\ parsed.draft.endDate # <<>>
           /\ parsed.draft.startTime = <<>>
           /\ parsed.draft.endTime = <<>>

\* C6: every draft of parseNaturalLanguage or parseLineToEvents that carries
\* an endDate has endDate >= date, also for a range written with the later
\* day first or crossing a year boundary.
C6_EndNotBeforeStart ==
    /\ (parsed.called /\ ~parsed.draft.isNull /\ parsed.draft.endDate # <<>>)
          => IsoLE(parsed.draft.date, parsed.draft.endDate)
    /\ \A i \in 1..Len(preview.drafts) :
          preview.drafts[i].endDate # <<>>
             => IsoLE(preview.drafts[i].date, preview.drafts[i].endDate)

\* the quick-add text of a title, a date phrase and a time phrase
QuickAdd(t, d, h) == joinWords(joinWords(t, d), h)

\* the titles of the alphabet that are not empty
NamedTitles == QuickAddTitles \ {<<>>}

\* the parsed text is a named title followed by the date phrase d and any
\* time phrase
TitledWithDate(d) ==
    /\ parsed.called
    /\ \E t \in NamedTitles, h \in QuickAddTimes : parsed.input = QuickAdd(t, d, h)

\* the current year followed by the text md ("-MM-DD")
ThisYear(md) == numToString(getFullYear(today)) \o md

\* C14: a quick-add phrase that writes the date as month name and day, as
\* the README and the parse-error hint do ("Team Meeting on Nov 15 2-4pm"),
\* is parsed into a non-null draft dated that day of the current year.
C14_MonthDayPhrase ==
    TitledWithDate(<<"o", "n", " ", "N", "o", "v", " ", "1", "5">>) =>
        /\ ~parsed.draft.isNull
        /\ parsed.draft.date = ThisYear(<<"-", "1", "1", "-", "1", "5">>)

\* the first and the last day that a "D1-D2 Mon" phrase of the alphabet names
DayRangeOf(d) ==
    CASE d = <<"1", "5", "-", "1", "7", " ", "o", "c", "t">> -> [date |-> <<"-", "1", "0", "-", "1", "5">>, endDate |-> <<"-", "1", "0", "-", "1", "7">>]
      [] d = <<"5", "-", "7", " ", "o", "c", "t">>   -> [date |-> <<"-", "1", "0", "-", "0", "5">>, endDate |-> <<"-", "1", "0", "-", "0", "7">>]

\* C15: for a range written "D1-D2 Mon" ("Conference 15-17 oct")
\* parseNaturalLanguage returns a draft with date = day D1 and endDate = day
\* D2 of that month in the current year, both YYYY-MM-DD with zero padding.
C15_DayRangeOfMonth ==
    parsed.called =>
        \A t \in QuickAddTitles, d \in { <<"1", "5", "-", "1", "7", " ", "o", "c", "t">>, <<"5", "-", "7", " ", "o", "c", "t">> }, h \in QuickAddTimes :
            parsed.input = QuickAdd(t, d, h) =>
                /\ ~parsed.draft.isNull
                /\ parsed.draft.date = ThisYear(DayRangeOf(d).date)
                /\ parsed.draft.endDate = ThisYear(DayRangeOf(d).endDate)

\* "Conference 5-7 oct" gave the padded days 05 and 07 of October
C15_Witness ==
    /\ parsed.called
    /\ parsed.input = QuickAdd(<<"C", "o", "n", "f", "e", "r", "e", "n", "c", "e">>, <<"5", "-", "7", " ", "o", "c", "t">>, <<>>)
    /\ parsed.draft.date = ThisYear(<<"-", "1", "0", "-", "0", "5">>)
    /\ parsed.draft.endDate = ThisYear(<<"-", "1", "0", "-", "0", "7">>)

\* C16: for a range written "M/D-M/D" ("12/1-12/3") or "Mon D1-D2"
\* ("oct 15-17") behind a title parseNaturalLanguage returns a draft whose
\* date is the start and whose endDate is the end of the range in the
\* current year.
C16_SlashAndMonthFirstRange ==
    /\ TitledWithDate(<<"1", "2", "/", "1", "-", "1", "2", "/", "3">>) =>
          /\ ~parsed.draft.isNull
          /\ parsed.draft.date = ThisYear(<<"-", "1", "2", "-", "0", "1">>)
          /\ parsed.draft.endDate = ThisYear(<<"-", "1", "2", "-", "0", "3">>)
    /\ TitledWithDate(<<"o", "c", "t", " ", "1", "5", "-", "1", "7">>) =>
          /\ ~parsed.draft.isNull
          /\ parsed.draft.date = ThisYear(<<"-", "1", "0", "-", "1", "5">>)
          /\ parsed.draft.endDate = ThisYear(<<"-", "1", "0", "-", "1", "7">>)

\* C17: when no range matches, a date written "M/D/YYYY" behind a title
\* makes parseNaturalLanguage return a draft dated that month and day of
\* the given year; the weekday name is the only date phrase after which a
\* titled text has no date.
C17_NumericDate ==
    /\ TitledWithDate(<<"1", "2", "/", "2", "5", "/", "2", "0", "2", "5">>) =>
          /\ ~parsed.draft.isNull
          /\ parsed.draft.date = <<"2", "0", "2", "5", "-", "1", "2", "-", "2", "5">>
    /\ \A d \in QuickAddDates \ { <<>>, <<"f", "r", "i", "d", "a", "y">> } :
          TitledWithDate(d) => ~parsed.draft.isNull

\* the date phrases of the alphabet that name a day or a range of days
DatedPhrases == QuickAddDates \ { <<>>, <<"f", "r", "i", "d", "a", "y">> }

\* C18: for a time range written "H1-H2pm" parseNaturalLanguage sets
\* startTime and endTime to HH:00 with 12 added to each hour other than 12;
\* "Team Meeting tomorrow 2-4pm" yields the type MEETING, tomorrow's date,
\* startTime 14:00, endTime 16:00 and the title "Team Meeting".
C18_HourRange ==
    /\ \A d \in DatedPhrases :
          (TitledWithDate(d) /\ ~parsed.draft.isNull
           /\ \E t \in NamedTitles : parsed.input = QuickAdd(t, d, <<"2", "-", "4", "p", "m">>)) =>
              /\ parsed.draft.startTime = <<"1", "4", ":", "0", "0">>
              /\ parsed.draft.endTime = <<"1", "6", ":", "0", "0">>
    /\ (parsed.called /\ parsed.input = <<"T", "e", "a", "m", " ", "M", "e", "e", "t", "i", "n", "g", " ", "t", "o", "m", "o", "r", "r", "o", "w", " ", "2", "-", "4", "p", "m">>) =>
          /\ ~parsed.draft.isNull
          /\ parsed.draft.type = "MEETING"
          /\ parsed.draft.date = formatDateSafe(today + 1)
          /\ parsed.draft.title = <<"T", "e", "a", "m", " ", "M", "e", "e", "t", "i", "n", "g">>

\* C19: for an explicit time range "H:MM-H:MM" ("9:00-11:30") in a text
\* with a date and a title parseNaturalLanguage returns startTime = the
\* first time and endTime = the second time, minutes included.
C19_ClockRange ==
    \A d \in DatedPhrases :
        (TitledWithDate(d) /\ ~parsed.draft.isNull
         /\ \E t \in NamedTitles : parsed.input = QuickAdd(t, d, <<"9", ":", "0", "0", "-", "1", "1", ":", "3", "0">>)) =>
            /\ parsed.draft.startTime = <<"0", "9", ":", "0", "0">>
            /\ parsed.draft.endTime = <<"1", "1", ":", "3", "0">>

\* C20: the title of the draft is the input in its own letter case without
\* the date and time phrases, trimmed: for "<Title> D Mon",
\* "<Title> on D Mon", "<Title> D1-D2 Mon" and "<Title> tomorrow H-Hpm" the
\* title is exactly <Title>.
C20_TitleWithoutDateAndTime ==
    parsed.called =>
        \A t \in NamedTitles :
            parsed.input \in { QuickAdd(t, <<"1", "5", " ", "o", "c", "t">>, <<>>),
                               QuickAdd(t, <<"o", "n", " ", "1", "5", " ", "O", "c", "t">>, <<>>),
                               QuickAdd(t, <<"1", "5", "-", "1", "7", " ", "o", "c", "t">>, <<>>),
                               QuickAdd(t, <<"t", "o", "m", "o", "r", "r", "o", "w">>, <<"2", "-", "4", "p", "m">>) } =>
                /\ ~parsed.draft.isNull
                /\ parsed.draft.title = t

---------------------------------------------------------------------------
(* Bulk import: claims                                                     *)

\* the lines of the alphabet that hold no date or a date that does not exist
UnparseableLines == { L_notes, L_audit }

\* a line that is empty or holds white space only
IsBlank(line) == \A i \in 1..Len(line) : line[i] \in SpaceSet

\* the sequence ls without its element i
Without(ls, i) == SubSeq(ls, 1, i - 1) \o SubSeq(ls, i + 1, Len(ls))

\* what parseLineToEvents returns for each line of the alphabet by itself
LineResult == [l \in BulkLines |-> parseLineToEvents(l, BulkDay)]

\* the drafts of each line by itself, line after line
RECURSIVE ConcatDrafts(_)
ConcatDrafts(ls) ==
    IF ls = <<>> THEN <<>>
    ELSE LineResult[Head(ls)].drafts \o ConcatDrafts(Tail(ls))

\* the date of a draft lies in [2025-08-01, 2026-07-31]
InWindow(draft) ==
    /\ IsoLE(<<"2", "0", "2", "5", "-", "0", "8", "-", "0", "1">>, draft.date)
    /\ IsoLE(draft.date, <<"2", "0", "2", "6", "-", "0", "7", "-", "3", "1">>)

\* C7: parseBulkText never throws; a line whose date cannot be parsed or
\* that holds no date contributes zero drafts, and the drafts of the other
\* lines are exactly what they are without that line.
C7_NeverThrows ==
    preview.called =>
        LET ls == splitLines(text)
        IN  /\ ~preview.threw
            /\ \A i \in 1..Len(ls) :
                  ls[i] \in UnparseableLines =>
                     /\ LineResult[ls[i]] = Returned(<<>>)
                     /\ preview.drafts =
                           parseBulkText(joinLines(Without(ls, i)), clip, today).drafts

\* a text with a line without a date next to a line that gives a draft
C7_Witness ==
    /\ preview.called
    /\ ~preview.threw
    /\ Len(preview.drafts) = 1
    /\ \E i \in 1..Len(splitLines(text)) : splitLines(text)[i] \in UnparseableLines

\* C8: parseBulkText works line by line and keeps the input order: the
\* result is the per-line results behind one another, and
\* parseBulkText(A newline B) = parseBulkText(A) followed by parseBulkText(B).
C8_LineOrder ==
    preview.called =>
        LET ls == splitLines(text)
        IN  \A k \in 1..(Len(ls) - 1) :
              preview.drafts =
                 parseBulkText(joinLines(SubSeq(ls, 1, k)), clip, today).drafts
                 \o parseBulkText(joinLines(SubSeq(ls, k + 1, Len(ls))),
                                  clip, today).drafts

\* two lines gave two different drafts
C8_Witness ==
    /\ preview.called
    /\ Len(splitLines(text)) = 2
    /\ Len(preview.drafts) = 2
    /\ preview.drafts[1] # preview.drafts[2]

C10_ClipWindow ==
    preview.called =>
        LET all == ConcatDrafts(splitLines(text))
        IN  preview.drafts = IF clip THEN SelectSeq(all, InWindow) ELSE all

\* a draft on a boundary day is kept while a draft outside is dropped
C10_Witness ==
    /\ preview.called
    /\ clip
    /\ Len(preview.drafts) = 1
    /\ preview.drafts[1].date \in { <<"2", "0", "2", "5", "-", "0", "8", "-", "0", "1">>,
                                    <<"2", "0", "2", "6", "-", "0", "7", "-", "3", "1">> }
    /\ Len(ConcatDrafts(splitLines(text))) = 2

---------------------------------------------------------------------------
(* Bulk import, one line: claims                                           *)

\* the dates of the alphabet that name one day
OneDayDates == { <<"J", "u", "l", "y", " ", "1", ",", " ", "2", "0", "2", "5">>, <<"M", "a", "r", " ", "3", ",", " ", "2", "0", "2", "6">>, <<"M", "a", "r", "c", "h", " ", "9", "-", "9", ",", " ", "2", "0", "2", "6">> }

\* the title that ends in the week-of marker
WeekOfTitle == <<"C", "o", "m", "m", "i", "t", " ", "D", "o", "c", "u", "m", "e", "n", "t", "a", "t", "i", "o", "n", " ", "W", "e", "e", "k", " ", "o", "f">>

\* the first and the last day that each date of the alphabet names
DaysOf(date) ==
    CASE date = <<"J", "u", "l", "y", " ", "9", "-", "1", "0", ",", " ", "2", "0", "2", "5">>       -> [first |-> <<"2", "0", "2", "5", "-", "0", "7", "-", "0", "9">>, last |-> <<"2", "0", "2", "5", "-", "0", "7", "-", "1", "0">>]
      [] date = <<"J", "u", "l", "y", " ", "2", "8", " ", "-", " ", "A", "u", "g", " ", "1", ",", " ", "2", "0", "2", "5">> -> [first |-> <<"2", "0", "2", "5", "-", "0", "7", "-", "2", "8">>, last |-> <<"2", "0", "2", "5", "-", "0", "8", "-", "0", "1">>]
      [] date = <<"J", "a", "n", " ", "3", "1", "ndash", "F", "e", "b", " ", "2", ",", " ", "2", "0", "2", "6">>    -> [first |-> <<"2", "0", "2", "6", "-", "0", "1", "-", "3", "1">>, last |-> <<"2", "0", "2", "6", "-", "0", "2", "-", "0", "2">>]
      [] date = <<"J", "u", "l", "y", " ", "1", ",", " ", "2", "0", "2", "5">>          -> [first |-> <<"2", "0", "2", "5", "-", "0", "7", "-", "0", "1">>, last |-> <<"2", "0", "2", "5", "-", "0", "7", "-", "0", "1">>]
      [] date = <<"M", "a", "r", " ", "3", ",", " ", "2", "0", "2", "6">>           -> [first |-> <<"2", "0", "2", "6", "-", "0", "3", "-", "0", "3">>, last |-> <<"2", "0", "2", "6", "-", "0", "3", "-", "0", "3">>]
      [] date = <<"M", "a", "r", "c", "h", " ", "9", "-", "9", ",", " ", "2", "0", "2", "6">>       -> [first |-> <<"2", "0", "2", "6", "-", "0", "3", "-", "0", "9">>, last |-> <<"2", "0", "2", "6", "-", "0", "3", "-", "0", "9">>]

\* the line is a single date behind the week-of marker, which stands for a
\* week and not for the day
IsWeekOfDay(c) == c.title = WeekOfTitle /\ c.date \in { <<"J", "u", "l", "y", " ", "1", ",", " ", "2", "0", "2", "5">>, <<"M", "a", "r", " ", "3", ",", " ", "2", "0", "2", "6">> }

HasKeyword(title, keywords) == \E k \in keywords : includes(toLowerCase(title), k)

\* C12: guessType gives every title a type by a fixed precedence on the
\* lower-cased title: "monthly review" gives MONTHLY_REVIEW; else "holiday",
\* "annual leave" or "pto" gives HOLIDAYS; else "meeting", "review",
\* "alignment" or "kickoff" gives MEETING; else PLANNING.  Every bulk draft
\* has a type, and a title with both "holiday" and "meeting" is HOLIDAYS.
C12_TypePrecedence ==
    \A i \in 1..Len(preview.drafts) :
        /\ preview.drafts[i].type \in { "PLANNING", "MEETING", "MONTHLY_REVIEW", "HOLIDAYS" }
        /\ preview.drafts[i].type =
              IF HasKeyword(preview.drafts[i].title, { <<"m", "o", "n", "t", "h", "l", "y", " ", "r", "e", "v", "i", "e", "w">> })
              THEN "MONTHLY_REVIEW"
              ELSE IF HasKeyword(preview.drafts[i].title,
                                 { <<"h", "o", "l", "i", "d", "a", "y">>, <<"a", "n", "n", "u", "a", "l", " ", "l", "e", "a", "v", "e">>, <<"p", "t", "o">> })
              THEN "HOLIDAYS"
              ELSE IF HasKeyword(preview.drafts[i].title,
                                 { <<"m", "e", "e", "t", "i", "n", "g">>, <<"r", "e", "v", "i", "e", "w">>, <<"a", "l", "i", "g", "n", "m", "e", "n", "t">>, <<"k", "i", "c", "k", "o", "f", "f">> })
              THEN "MEETING"
              ELSE "PLANNING"
        /\ preview.drafts[i].title = <<"H", "o", "l", "i", "d", "a", "y", " ", "M", "e", "e", "t", "i", "n", "g">>
              => preview.drafts[i].type = "HOLIDAYS"

\* a draft whose title holds "holiday" and "meeting" got the type HOLIDAYS
C12_Witness ==
    /\ preview.called
    /\ Len(preview.drafts) = 1
    /\ HasKeyword(preview.drafts[1].title, { <<"h", "o", "l", "i", "d", "a", "y">> })
    /\ HasKeyword(preview.drafts[1].title, { <<"m", "e", "e", "t", "i", "n", "g">> })
    /\ preview.drafts[1].type = "HOLIDAYS"

\* C13: for every line with a month-name token the draft's title is exactly
\* the text of the input line in front of the first such token, trimmed and
\* without parenthetical groups, or "Event" when that text is empty; also
\* when the title holds a hyphen ("Follow-up") or a word that begins with a
\* month abbreviation ("Marketing").
C13_TitleBeforeMonth ==
    preview.called =>
        \A c \in LineCases :
            (text = lineOf(c) /\ Len(preview.drafts) = 1) =>
                preview.drafts[1].title =
                    IF c.title = <<>> THEN <<"E", "v", "e", "n", "t">> ELSE c.title


---------------------------------------------------------------------------
(* Claims about the type and the persistence of a quick-add event          *)

\* C21: parseNaturalLanguage takes the type from a case-insensitive keyword
\* scan of the whole input with the precedence PLANNING, MONTHLY_REVIEW,
\* MEETING, HOLIDAYS ("monthly review planning" is PLANNING, "holiday
\* meeting" is MEETING) and leaves it unset when no keyword occurs; the
\* quick add then stores the event with the type MEETING.
C21_TypeScan ==
    (parsed.called /\ ~parsed.draft.isNull) =>
        /\ parsed.draft.type =
              IF HasKeyword(parsed.input,
                            { <<"p", "l", "a", "n", "n", "i", "n", "g">>, <<"p", "i", " ", "p", "l", "a", "n", "n", "i", "n", "g">>, <<"q", "b", "r", " ", "p", "l", "a", "n", "n", "i", "n", "g">> })
              THEN "PLANNING"
              ELSE IF HasKeyword(parsed.input,
                                 { <<"m", "o", "n", "t", "h", "l", "y", " ", "r", "e", "v", "i", "e", "w">>, <<"m", "o", "n", "t", "h", " ", "r", "e", "v", "i", "e", "w">>, <<"m", "o", "n", "t", "h", "l", "y">> })
              THEN "MONTHLY_REVIEW"
              ELSE IF HasKeyword(parsed.input,
                                 { <<"m", "e", "e", "t", "i", "n", "g">>, <<"s", "t", "a", "n", "d", "u", "p">>, <<"r", "e", "v", "i", "e", "w">>,
                                   <<"r", "e", "t", "r", "o", "s", "p", "e", "c", "t", "i", "v", "e">>, <<"q", "b", "r">> })
              THEN "MEETING"
              ELSE IF HasKeyword(parsed.input,
                                 { <<"h", "o", "l", "i", "d", "a", "y">>, <<"v", "a", "c", "a", "t", "i", "o", "n">>, <<"t", "h", "a", "n", "k", "s", "g", "i", "v", "i", "n", "g">>,
                                   <<"v", "e", "t", "e", "r", "a", "n", "s">>, <<"c", "h", "r", "i", "s", "t", "m", "a", "s">> })
              THEN "HOLIDAYS"
              ELSE "NONE"
        /\ HasKeyword(parsed.input, { <<"m", "o", "n", "t", "h", "l", "y", " ", "r", "e", "v", "i", "e", "w", " ", "p", "l", "a", "n", "n", "i", "n", "g">> })
              => parsed.draft.type = "PLANNING"
        /\ HasKeyword(parsed.input, { <<"h", "o", "l", "i", "d", "a", "y", " ", "m", "e", "e", "t", "i", "n", "g">> })
              => parsed.draft.type = "MEETING"
        /\ events # <<>>
        /\ events[Len(events)].type =
              IF parsed.draft.type = "NONE" THEN "MEETING" ELSE parsed.draft.type

\* a quick add of a text with "holiday" and "meeting" was stored as a MEETING
C21_Witness ==
    /\ parsed.called
    /\ ~parsed.draft.isNull
    /\ HasKeyword(parsed.input, { <<"h", "o", "l", "i", "d", "a", "y">> })
    /\ HasKeyword(parsed.input, { <<"m", "e", "e", "t", "i", "n", "g">> })
    /\ events # <<>>
    /\ events[Len(events)].type = "MEETING"

\* C22: both parsers are deterministic functions of their text: a second
\* call of parseNaturalLanguage or of parseBulkText with the text of the
\* call before it returns what that call returned, whatever happened
\* between the two calls, a change of the system clock included.
C22_SameTextSameResult ==
    [][ /\ (parsed.called /\ parsed'.called /\ parsed'.input = parsed.input)
            => parsed'.draft = parsed.draft
        /\ (preview.called /\ preview'.called /\ ~preview'.threw /\ text' = text)
            => preview'.drafts = preview.drafts ]_vars

\* C30: the quick add persists what the parser extracted: the event that
\* handleQuickAdd creates has the draft's title, type (MEETING when unset),
\* date, startTime and endTime, and the draft's endDate when the draft is a
\* range of dates, so that a typed range is stored as a multi-day event.
C30_QuickAddPersistsDraft ==
    (parsed.called /\ ~parsed.draft.isNull) =>
        /\ events # <<>>
        /\ events[Len(events)].title = parsed.draft.title
        /\ events[Len(events)].type =
              IF parsed.draft.type = "NONE" THEN "MEETING" ELSE parsed.draft.type
        /\ events[Len(events)].date = parsed.draft.date
        /\ events[Len(events)].startTime = parsed.draft.startTime
        /\ events[Len(events)].endTime = parsed.draft.endTime
        /\ parsed.draft.endDate # <<>> =>
              /\ "endDate" \in DOMAIN events[Len(events)]
              /\ events[Len(events)].endDate = parsed.draft.endDate

---------------------------------------------------------------------------
(* Lane assignment and rendering of a week: further claims                 *)

\* the event's range of dates holds a day of the rendered week
InWeek(e) == \E k \in 1..Len(weekDays) : e.date <= weekDays[k] /\ weekDays[k] <= e.endDate

HasLane(e) == \E en \in LaneEntries : en[1] = e.id

LaneOf(id) == (CHOOSE en \in LaneEntries : en[1] = id)[2]

C25_LongerGetsLowerLane ==
    LET iv == WeekIntervals IN
    \A i \in Retained(iv) : \A j \in Retained(iv) :
        (/\ iv[i].start = iv[j].start
         /\ iv[i].end - iv[i].start > iv[j].end - iv[j].start)
        => LaneOf(iv[i].id) < LaneOf(iv[j].id)

\* the shorter of two events with one start index was created first and
\* lies in the lane below the longer one
C25_Witness ==
    LET iv == WeekIntervals IN
    /\ Len(iv) = 2
    /\ iv[1].start = iv[2].start
    /\ iv[1].end < iv[2].end
    /\ LaneOf(iv[1].id) = 1
    /\ LaneOf(iv[2].id) = 0

\* the event has an endDate different from its date
EndsOnOtherDay(e) == e.endDate # NoDate /\ e.endDate # e.date

\* a SpanningEventCard is rendered for the event in the week on display
IsChip(e) == \E j \in 1..Len(laneEvents) : laneEvents[j].id = e.id

\* the event is drawn inside the cell of the k-th day of the week
InCell(e, k) ==
    \E j \in 1..Len(dayEvents(events, weekDays[k])) :
        dayEvents(events, weekDays[k])[j].id = e.id

ChipColumns(e) ==
    LET card == SpanningEventCard(e, weekDays, laneProp(laneResult.eventLanes, e.id)) IN
    IF card.drawn THEN card.startIndex .. (card.startIndex + card.spanDays - 1) ELSE {}

\* C27: for every multi-day event with endDate >= date that passes the week
\* filter of renderMonth, the interval [start, end] of assignEventLanes is
\* the run of columns startIndex .. startIndex + spanDays - 1 that
\* SpanningEventCard draws, also when the event begins before the week,
\* ends behind it, or begins or ends on a weekend; so two such chips in one
\* lane never cover a common day column.
C27_IntervalIsChip ==
    \A i \in 1..Len(laneEvents) :
        LET e  == laneEvents[i]
            iv == toInterval(e, weekDays)
        IN  e.endDate >= e.date =>
               /\ SpanningEventCard(e, weekDays, 0).drawn
               /\ ChipColumns(e) = iv.start .. iv.end
               /\ \A j \in 1..Len(laneEvents) :
                     (/\ j # i
                      /\ laneEvents[j].endDate >= laneEvents[j].date
                      /\ laneProp(laneResult.eventLanes, laneEvents[j].id)
                            = laneProp(laneResult.eventLanes, e.id))
                     => ChipColumns(e) \cap ChipColumns(laneEvents[j]) = {}

\* an event from Friday of the week before to Saturday of the week on
\* display is drawn over all five columns, a second chip lies in lane 1
C27_Witness ==
    /\ \E i \in 1..Len(laneEvents) :
          /\ laneEvents[i].date < weekDays[1]
          /\ laneEvents[i].endDate > weekDays[Len(weekDays)]
          /\ ChipColumns(laneEvents[i]) = 0..4
    /\ laneResult.maxLanes = 2

---------------------------------------------------------------------------
(* Drag and drop: claims                                                   *)

\* every event with an endDate ends on or after its date
WellFormed(evs) ==
    \A i \in 1..Len(evs) : evs[i].endDate # NoDate => evs[i].endDate >= evs[i].date

\* C28: drag and drop keeps the events well-formed: if every stored event
\* with an endDate has endDate >= date, this also holds after a drop, and
\* the moved event keeps its number of days between date and endDate, an
\* event whose endDate equals its date included.
C28_DropKeepsWellFormed ==
    [][ WellFormed(events) =>
           /\ WellFormed(events')
           /\ \A i \in 1..Len(events) :
                 events[i].endDate # NoDate =>
                    events'[i].endDate - events'[i].date
                       = events[i].endDate - events[i].date ]_vars

---------------------------------------------------------------------------
(* Calendar store: claims                                                  *)

\* the createEvent call k has resolved and no resolved deleteEvent names
\* its event
CreatedAndKept(k) ==
    /\ calls[k].op = "createEvent"
    /\ calls[k].phase = "done"
    /\ ~\E j \in 1..Len(calls) :
          calls[j].op = "deleteEvent" /\ calls[j].phase = "done" /\ calls[j].id = k

\* C29: under every interleaving of loadEvents, createEvent, updateEvent and
\* deleteEvent whose storage operations all succeed, once no call is in
\* flight every event whose createEvent resolved and that was not deleted
\* is in store.events, and isLoading is true while a call is in flight.
C29_NoLostEventAndLoading ==
    (\A k \in 1..Len(calls) : calls[k].phase # "failed") =>
        /\ InFlight = {} =>
              \A k \in 1..Len(calls) :
                  CreatedAndKept(k) => \E i \in 1..Len(events) : events[i].id = k
        /\ InFlight # {} => isLoading
====
